---- MODULE Spec2Model ----
(***************************************************************************)
(* Adaptive admission control of src/limiter/app.py: token-bucket limiter, *)
(* policy and statistics store, decision validator, surge predictor,       *)
(* decision engine with governance queue, and the heuristic control loop.  *)
(*                                                                         *)
(* Numbers.  Python floats are represented as fixed-point integers in      *)
(* thousandths (Scale): rps, tokens, confidence, ratios, probabilities.    *)
(* Bursts and counts are plain integers, time is in whole seconds.         *)
(* Ratio tests such as new_rps / old_rps >= LARGE_CHANGE_FACTOR are cross  *)
(* multiplied, so they are exact on the represented values.                *)
(***************************************************************************)
EXTENDS Integers, Sequences, FiniteSets, TLC

Scale == 10 * 100   \* fixed-point unit: 1.0 is 1000 thousandths

\* ---------------------------------------------------------------- bounds
MaxTime    == 6   \* the clock stops advancing here
MaxAdmits  == 7   \* requests of known tenants in one behaviour
MaxReplies == 1   \* oracle replies (HTTP 200) in one behaviour
MaxCycles  == 2   \* control-loop cycles in one behaviour
MaxLiveAdmits == 2   \* requests of known tenants in one behaviour of SpecLive
MaxBucketAdmits == 16  \* requests in one behaviour of SpecBucket
MaxBucketTime == 3     \* seconds in one behaviour of SpecBucket
MaxSamples == 3        \* calls of the surge analysis in one behaviour of SpecSurge
MaxSurgeTime == 450    \* seconds in one behaviour of SpecSurge
MaxConcurrent == 13    \* requests answered at one instant that a run is computed for
MaxDemoAdmits == 1     \* requests of known tenants in one behaviour of SpecDemo
MaxDemoIds == 2        \* decision ids in use when demo phase 4 adds one more
MaxSimulated == 40   \* requests that simulate_traffic may leave on one key's counter

\* ------------------------------------------------------ program constants
DECISION_MIN_CONF   == 600     \* 0.6
HEURISTIC_EVERY_SEC == 3
LARGE_CHANGE_FACTOR == 1800    \* 1.8
OLLAMA_MAX_RETRIES  == 2

\* a plan table with a plan below the floors of apply_policy
PLAN_BASE_low ==
  [free |-> [rps |-> 500,   burst |-> 3],
   pro  |-> [rps |-> 8000,  burst |-> 20],
   ent  |-> [rps |-> 15000, burst |-> 40]]

PLAN_BASE ==
  [free |-> [rps |-> 3000,  burst |-> 10],
   pro  |-> [rps |-> 8000,  burst |-> 20],
   ent  |-> [rps |-> 15000, burst |-> 40]]

PlanTenants == {"free", "pro", "ent"}

\* PLAN_BASE.get(tenant, {"rps": 10.0, "burst": 20})
PlanBaseGet(tenant) ==
  IF tenant \in PlanTenants THEN PLAN_BASE[tenant]
  ELSE [rps |-> 10000, burst |-> 20]

\* The (tenant, endpoint) pairs of the model: a projection of the
\* tenant x VALID_ENDPOINTS cross product that start-up initialises.
EndpointA == "/api/v1/resourceA"
KeyOrder  == << <<"free", EndpointA>>, <<"ent", EndpointA>> >>
Pairs     == {KeyOrder[i] : i \in 1..Len(KeyOrder)}
Tenants   == {p[1] : p \in Pairs}
FirstPair == KeyOrder[1]
LastPair  == KeyOrder[Len(KeyOrder)]

\* A tenant that is not a string: the None that request.json.get("tenant", "pro")
\* returns for the body {"tenant": null} of /debug/simulate-traffic.
JsonNull == "<None>"
IsStr(tenant) == tenant # JsonNull

\* the insertion order of the policies dict: the start-up pairs, then the pair
\* that simulate_traffic may add
PolicyOrder == KeyOrder \o << <<JsonNull, EndpointA>> >>

Max(a, b) == IF a >= b THEN a ELSE b
Min(a, b) == IF a <= b THEN a ELSE b

\* int(x) of a float given in thousandths: truncation towards zero
IntOf(x) == IF x >= 0 THEN x \div Scale ELSE -((-x) \div Scale)

\* _calculate_business_priority
_calculate_business_priority(tenant) ==
  CASE tenant = "free" -> 1000
    [] tenant = "pro"  -> 2000
    [] tenant = "ent"  -> 5000
    [] OTHER           -> 1000

\* API_KEYS and _tenant(): the tenant an X-API-Key header resolves to
API_KEYS == [k \in {"free-key", "pro-key", "ent-key"} |->
               CASE k = "free-key" -> "free" [] k = "pro-key" -> "pro" [] OTHER -> "ent"]

_tenant(key) == IF key \in DOMAIN API_KEYS THEN API_KEYS[key] ELSE "unknown"

\* The keys the admission caller presents in the model (one of them unknown).
RequestKeys == {"ent-key", "bad-key"}

VARIABLES
  now,                \* time.time(), whole seconds
  policies,           \* (tenant, endpoint) -> [rps, burst]
  buckets,            \* (tenant, endpoint) -> [tokens, last]
  stats,              \* (tenant, endpoint) -> [ok, blocked, since]
  pending_decisions,  \* the dict, as the sequence of its values in insertion order
  decision_history,   \* the list of decision records
  surge_history,      \* (tenant, endpoint) -> sequence of [timestamp, rps]
  surge_predictions,  \* (tenant, endpoint) -> last stored prediction
  state_lock,         \* "free" or the name of the holder
  loop,               \* the locals and the position of _heuristics_loop
  aa,                 \* the locals and the position of approve_all
  next_id,            \* the uuid4() values handed out so far, plus one
  response,           \* what the last governance request, or the last request
                      \* refused as unauthorized, returned
  n_replies,          \* oracle replies so far
  allowed, denied,    \* history: requests answered 200-or-proxied / 429, per key
  drained,            \* history: counts taken out by the control loop per key
  v_raw, v_out,       \* input and result of the validator run on its own
  hq                  \* the locals and the position of decisions_history

store_vars == <<policies, buckets, stats>>
gov_vars   == <<pending_decisions, decision_history, next_id>>
surge_vars == <<surge_history, surge_predictions>>
hist_vars  == <<allowed, denied, drained>>
bound_vars == <<n_replies>>
val_vars   == <<v_raw, v_out>>
vars == <<now, policies, buckets, stats, pending_decisions, decision_history,
          surge_history, surge_predictions, state_lock, loop, aa, next_id,
          response, n_replies, allowed, denied, drained,
          v_raw, v_out, hq>>

\* The shared dicts and lists the handlers work on, passed around as one record.
Store == [policies |-> policies, buckets |-> buckets, stats |-> stats,
          pending_decisions |-> pending_decisions,
          decision_history |-> decision_history, next_id |-> next_id]

\* ------------------------------------------------- token bucket limiter
\* _ensure_policy_and_bucket putting the plan's policy back on every call
_ensure_policy_and_bucket_resetting(S, pair, t) ==
  LET pol == (pair :> [rps |-> PlanBaseGet(pair[1]).rps,
                       burst |-> PlanBaseGet(pair[1]).burst]) @@ S.policies
      bkt == IF pair \in DOMAIN S.buckets THEN S.buckets
             ELSE (pair :> [tokens |-> pol[pair].burst * Scale, last |-> t]) @@ S.buckets
      st  == IF pair \in DOMAIN S.stats THEN S.stats
             ELSE (pair :> [ok |-> 0, blocked |-> 0, since |-> t]) @@ S.stats
  IN [S EXCEPT !.policies = pol, !.buckets = bkt, !.stats = st]

\* _ensure_policy_and_bucket giving a new key an empty bucket
_ensure_policy_and_bucket_empty_bucket(S, pair, t) ==
  LET pol == IF pair \in DOMAIN S.policies THEN S.policies
             ELSE (pair :> [rps |-> PlanBaseGet(pair[1]).rps,
                            burst |-> PlanBaseGet(pair[1]).burst]) @@ S.policies
      bkt == IF pair \in DOMAIN S.buckets THEN S.buckets
             ELSE (pair :> [tokens |-> 0, last |-> t]) @@ S.buckets
      st  == IF pair \in DOMAIN S.stats THEN S.stats
             ELSE (pair :> [ok |-> 0, blocked |-> 0, since |-> t]) @@ S.stats
  IN [S EXCEPT !.policies = pol, !.buckets = bkt, !.stats = st]

\* _ensure_policy_and_bucket(pair) at time t
_ensure_policy_and_bucket(S, pair, t) ==
  LET pol == IF pair \in DOMAIN S.policies THEN S.policies
             ELSE (pair :> [rps |-> PlanBaseGet(pair[1]).rps,
                            burst |-> PlanBaseGet(pair[1]).burst]) @@ S.policies
      bkt == IF pair \in DOMAIN S.buckets THEN S.buckets
             ELSE (pair :> [tokens |-> pol[pair].burst * Scale, last |-> t]) @@ S.buckets
      st  == IF pair \in DOMAIN S.stats THEN S.stats
             ELSE (pair :> [ok |-> 0, blocked |-> 0, since |-> t]) @@ S.stats
  IN [S EXCEPT !.policies = pol, !.buckets = bkt, !.stats = st]

\* _refill_tokens without the cap at burst
_refill_tokens_uncapped(S, pair, t) ==
  LET cfg     == S.policies[pair]
      bucket  == S.buckets[pair]
      elapsed == t - bucket.last
  IN [S EXCEPT !.buckets[pair] =
        [last   |-> t,
         tokens |-> bucket.tokens + cfg.rps * elapsed]]

\* _refill_tokens(pair) at time t
_refill_tokens(S, pair, t) ==
  LET cfg     == S.policies[pair]
      bucket  == S.buckets[pair]
      elapsed == t - bucket.last
  IN [S EXCEPT !.buckets[pair] =
        [last   |-> t,
         tokens |-> Min(cfg.burst * Scale, bucket.tokens + cfg.rps * elapsed)]]

\* _allow with the decrement forgotten
_allow_no_decrement(S, pair, t) ==
  LET S1 == _refill_tokens(_ensure_policy_and_bucket(S, pair, t), pair, t)
  IN [store |-> S1, ret |-> S1.buckets[pair].tokens >= Scale]

\* _allow asking for more than one token
_allow_spare_token(S, pair, t) ==
  LET S1 == _refill_tokens(_ensure_policy_and_bucket(S, pair, t), pair, t)
  IN IF S1.buckets[pair].tokens > Scale
     THEN [store |-> [S1 EXCEPT !.buckets[pair].tokens = @ - Scale], ret |-> TRUE]
     ELSE [store |-> S1, ret |-> FALSE]

\* _allow(pair) at time t: the store afterwards and the value returned
_allow(S, pair, t) ==
  LET S1 == _refill_tokens(_ensure_policy_and_bucket(S, pair, t), pair, t)
  IN IF S1.buckets[pair].tokens >= Scale
     THEN [store |-> [S1 EXCEPT !.buckets[pair].tokens = @ - Scale], ret |-> TRUE]
     ELSE [store |-> S1, ret |-> FALSE]

\* apply_policy(tenant, endpoint, rps, burst) at time t; burst is already an
\* integer at every call site, so int(burst) is the value itself
\* apply_policy setting the rps and leaving the burst as it is
apply_policy_rps_only(S, tenant, endpoint, rps, burst, t) ==
  LET pair == <<tenant, endpoint>>
      S1   == _ensure_policy_and_bucket(S, pair, t)
  IN [S1 EXCEPT !.policies[pair].rps = Max(Scale, rps)]

\* apply_policy starting a new usage window for the key
apply_policy_new_window(S, tenant, endpoint, rps, burst, t) ==
  LET pair == <<tenant, endpoint>>
      S1   == _ensure_policy_and_bucket(S, pair, t)
  IN [S1 EXCEPT !.policies[pair] = [rps |-> Max(Scale, rps), burst |-> Max(5, burst)],
                !.stats[pair] = [ok |-> 0, blocked |-> 0, since |-> t]]

apply_policy(S, tenant, endpoint, rps, burst, t) ==
  LET pair == <<tenant, endpoint>>
      S1   == _ensure_policy_and_bucket(S, pair, t)
  IN [S1 EXCEPT !.policies[pair] = [rps |-> Max(Scale, rps), burst |-> Max(5, burst)]]

SetStore(S) ==
  /\ policies' = S.policies
  /\ buckets'  = S.buckets
  /\ stats'    = S.stats
  /\ pending_decisions' = S.pending_decisions
  /\ decision_history'  = S.decision_history
  /\ next_id' = S.next_id

\* requests of known tenants handled so far
Admitted == LET Sum[i \in 0..Len(KeyOrder)] ==
                  IF i = 0 THEN 0
                  ELSE Sum[i - 1] + allowed[KeyOrder[i]] + denied[KeyOrder[i]]
            IN Sum[Len(KeyOrder)]

Resp(op, status, id, count) == [op |-> op, status |-> status, id |-> id, count |-> count]

\* _handle_request counting the request of an unknown tenant as blocked before
\* it answers 401
_handle_request_counting_unknown(key, endpoint_path) ==
  LET tenant == _tenant(key)
      pair   == <<tenant, endpoint_path>>
  IN /\ IF tenant = "unknown"
        THEN /\ response' = Resp("request", 401, 0, 0)
             /\ SetStore([_ensure_policy_and_bucket(Store, pair, now)
                            EXCEPT !.stats[pair].blocked = @ + 1])
             /\ UNCHANGED hist_vars
        ELSE /\ state_lock = "free"
             /\ LET r  == _allow(Store, pair, now)
                    S1 == IF r.ret
                          THEN [r.store EXCEPT !.stats[pair].ok = @ + 1]
                          ELSE [r.store EXCEPT !.stats[pair].blocked = @ + 1]
                IN /\ SetStore(S1)
                   /\ allowed' = IF r.ret THEN [allowed EXCEPT ![pair] = @ + 1] ELSE allowed
                   /\ denied'  = IF r.ret THEN denied ELSE [denied EXCEPT ![pair] = @ + 1]
             /\ UNCHANGED <<drained, response>>
     /\ UNCHANGED <<now, surge_vars, state_lock, loop, aa, n_replies, val_vars, hq>>

\* _handle_request leaving a denied request out of the usage window
_handle_request_uncounted_denial(key, endpoint_path) ==
  LET tenant == _tenant(key)
      pair   == <<tenant, endpoint_path>>
  IN /\ IF tenant = "unknown"
        THEN /\ response' = Resp("request", 401, 0, 0)
             /\ UNCHANGED <<store_vars, gov_vars, hist_vars>>
        ELSE /\ state_lock = "free"
             /\ LET r  == _allow(Store, pair, now)
                    S1 == IF r.ret
                          THEN [r.store EXCEPT !.stats[pair].ok = @ + 1]
                          ELSE r.store
                IN /\ SetStore(S1)
                   /\ allowed' = IF r.ret THEN [allowed EXCEPT ![pair] = @ + 1] ELSE allowed
                   /\ denied'  = IF r.ret THEN denied ELSE [denied EXCEPT ![pair] = @ + 1]
             /\ UNCHANGED <<drained, response>>
     /\ UNCHANGED <<now, surge_vars, state_lock, loop, aa, n_replies, val_vars, hq>>

\* _handle_request(endpoint_path) for a request carrying the API key `key`
_handle_request(key, endpoint_path) ==
  LET tenant == _tenant(key)
      pair   == <<tenant, endpoint_path>>
  IN /\ IF tenant = "unknown"
        THEN /\ response' = Resp("request", 401, 0, 0)       \* unauthorized
             /\ UNCHANGED <<store_vars, gov_vars, hist_vars>>
        ELSE /\ state_lock = "free"
             /\ LET r  == _allow(Store, pair, now)
                    S1 == IF r.ret
                          THEN [r.store EXCEPT !.stats[pair].ok = @ + 1]
                          ELSE [r.store EXCEPT !.stats[pair].blocked = @ + 1]
                IN /\ SetStore(S1)
                   /\ allowed' = IF r.ret THEN [allowed EXCEPT ![pair] = @ + 1] ELSE allowed
                   /\ denied'  = IF r.ret THEN denied ELSE [denied EXCEPT ![pair] = @ + 1]
             /\ UNCHANGED <<drained, response>>
     /\ UNCHANGED <<now, surge_vars, state_lock, loop, aa, n_replies, val_vars, hq>>

\* POST /debug/simulate-traffic with the body {"tenant": tenant, "requests":
\* requests_count}: the counters of the tenant's key grow under the lock, and the
\* key is created when the tenant is new
simulate_traffic(tenant, requests_count) ==
  /\ state_lock = "free"
  /\ LET pair == <<tenant, EndpointA>>
         S1   == _ensure_policy_and_bucket(Store, pair, now)
     IN /\ S1.stats[pair].ok + requests_count <= MaxSimulated
        /\ policies' = S1.policies
        /\ buckets' = S1.buckets
        /\ stats' = [S1.stats EXCEPT ![pair] =
                       [@ EXCEPT !.ok = @ + requests_count,
                                 !.blocked = @ + Max(1, requests_count \div 10)]]
  /\ UNCHANGED <<now, gov_vars, surge_vars, state_lock, loop, aa, response,
                 bound_vars, hist_vars, val_vars, hq>>

\* POST /api/demo/reset: every key back to the policy of its plan, the pending
\* set emptied, every usage window restarted
demo_reset ==
  /\ state_lock = "free"
  /\ LET Reset[i \in 0..Len(KeyOrder)] ==
           IF i = 0 THEN Store
           ELSE apply_policy(Reset[i - 1], KeyOrder[i][1], KeyOrder[i][2],
                             PlanBaseGet(KeyOrder[i][1]).rps,
                             PlanBaseGet(KeyOrder[i][1]).burst, now)
         S1 == Reset[Len(KeyOrder)]
     IN SetStore([S1 EXCEPT
          !.pending_decisions = <<>>,
          !.stats = [pair \in DOMAIN S1.stats |-> [ok |-> 0, blocked |-> 0, since |-> now]]])
  /\ UNCHANGED <<now, surge_vars, state_lock, loop, aa, response, bound_vars,
                 hist_vars, val_vars, hq>>

\* the traffic demo phase 2 adds to the window of a tenant's keys
DemoTraffic(tenant) ==
  [ok      |-> IF tenant = "ent" THEN 25 ELSE IF tenant = "pro" THEN 15 ELSE 8,
   blocked |-> IF tenant = "free" THEN 3 ELSE 1]

\* GET /api/demo/phase/<phase_num>: phase 2 adds traffic to the usage windows,
\* phase 4 puts a made-up decision in the pending set, the others only answer
demo_phase(phase_num) ==
  /\ phase_num \in {2, 4} => state_lock = "free"
  /\ CASE phase_num = 2 ->
            LET Add[i \in 0..Len(KeyOrder)] ==
                  IF i = 0 THEN Store
                  ELSE LET pair == KeyOrder[i]
                           S1   == _ensure_policy_and_bucket(Add[i - 1], pair, now)
                       IN [S1 EXCEPT !.stats[pair] =
                             [@ EXCEPT !.ok = @ + DemoTraffic(pair[1]).ok,
                                       !.blocked = @ + DemoTraffic(pair[1]).blocked]]
            IN /\ \A pair \in Pairs : stats[pair].ok + DemoTraffic(pair[1]).ok <= MaxSimulated
               /\ SetStore(Add[Len(KeyOrder)])
       [] phase_num = 4 ->
            /\ next_id <= MaxDemoIds
            /\ SetStore([Store EXCEPT
                  !.pending_decisions = Append(@,
                     [id |-> next_id, tenant |-> "ent", endpoint |-> EndpointA,
                      action |-> "up", new_rps |-> 45000, new_burst |-> 135,
                      confidence |-> 920, created |-> now,
                      reason |-> "ddos_protection_89pct", old_rps |-> 15000,
                      scaling_factor |-> 3000]),
                  !.next_id = @ + 1])
       [] OTHER -> UNCHANGED <<store_vars, gov_vars>>
  /\ UNCHANGED <<now, surge_vars, state_lock, loop, aa, response, bound_vars,
                 hist_vars, val_vars, hq>>

\* GET /ai/decisions/history, in two steps: the last 50 records are copied under
\* the lock; the answer is built after the lock is released, and reads
\* len(decision_history) then
HqIdle(history_snapshot, total) ==
  [pc |-> "idle", history_snapshot |-> history_snapshot, total |-> total]

decisions_history_begin ==
  /\ hq.pc = "idle"
  /\ state_lock = "free"
  /\ hq' = [pc |-> "respond",
            history_snapshot |->
               IF Len(decision_history) <= 50 THEN decision_history
               ELSE SubSeq(decision_history, Len(decision_history) - 49, Len(decision_history)),
            total |-> 0]
  /\ UNCHANGED <<now, store_vars, gov_vars, surge_vars, state_lock, loop, aa, response,
                 bound_vars, hist_vars, val_vars>>

decisions_history_respond ==
  /\ hq.pc = "respond"
  /\ hq' = HqIdle(hq.history_snapshot, Len(decision_history))
  /\ UNCHANGED <<now, store_vars, gov_vars, surge_vars, state_lock, loop, aa, response,
                 bound_vars, hist_vars, val_vars>>

\* the clock, one second at a time
Second ==
  /\ now < MaxBucketTime
  /\ now' = now + 1
  /\ UNCHANGED <<store_vars, gov_vars, surge_vars, state_lock, loop, aa, response,
                 bound_vars, hist_vars, val_vars, hq>>

\* the clock, read at the granularity of the control loop's period
Tick ==
  /\ now + HEURISTIC_EVERY_SEC <= MaxTime
  /\ now' = now + HEURISTIC_EVERY_SEC
  /\ UNCHANGED <<store_vars, gov_vars, surge_vars, state_lock, loop, aa, response,
                 bound_vars, hist_vars, val_vars, hq>>

\* ---------------------------------------------------- decision validator
\* A raw oracle reply is a dict; a key may be absent, and a value may be text
\* that float()/int() cannot convert.  Numbers are in thousandths.
Num(v)    == [k |-> "num", v |-> v]
NoNum     == [k |-> "missing", v |-> 0]
BadNum    == [k |-> "text", v |-> 0]
NaNNum    == [k |-> "nan", v |-> 0]      \* float("nan"), which json.loads accepts
NoStr     == "<missing>"
EmptyRaw  == [action |-> NoStr, new_rps |-> NoNum, new_burst |-> NoNum,
              confidence |-> NoNum, reason |-> NoStr, scenario |-> NoStr]

\* the falsy {} result
Empty == [action |-> "", new_rps |-> 0, new_burst |-> 0, confidence |-> 0,
          reason |-> "", scenario |-> ""]

\* str.lower() on the action texts of the model
Lower(a) ==
  CASE a = "UP"   -> "up"
    [] a = "Down" -> "down"
    [] a = "SAME" -> "same"
    [] OTHER      -> a

LongReason    == "traffic_is_rising_quickly_and_blocked_ratio_is_high_so_scale_up_now_please_thanks_a_lot"
LongReason80  == "traffic_is_rising_quickly_and_blocked_ratio_is_high_so_scale_up_now_please_thank"
\* reason[:80]
First80(r) == IF r = LongReason THEN LongReason80 ELSE r

\* the validator with an out-of-range new_rps clamped into [1, 1000] instead of
\* rejected
_validate_ai_decision_clamping(raw, cur_rps, cur_burst) ==
  LET action    == Lower(IF raw.action = NoStr THEN "same" ELSE raw.action)
      new_rps   == Max(Scale, Min(1000 * Scale,
                       IF raw.new_rps.k = "missing" THEN cur_rps ELSE raw.new_rps.v))
      new_burst == IF raw.new_burst.k = "missing"
                   THEN IntOf(Max(10 * Scale, new_rps * 3))
                   ELSE IntOf(raw.new_burst.v)
      conf_raw  == IF raw.confidence.k = "missing" THEN 700 ELSE raw.confidence.v
  IN IF action \notin {"up", "down", "same"} THEN Empty
     ELSE IF raw.new_rps.k = "text" THEN Empty
     ELSE IF raw.new_burst.k = "text" THEN Empty
     ELSE IF new_burst < 5 \/ new_burst > 5000 THEN Empty
     ELSE IF raw.confidence.k = "text" THEN Empty
     ELSE [action     |-> action,
           new_rps    |-> new_rps,
           new_burst  |-> new_burst,
           confidence |-> Max(500, Min(conf_raw, 1000)),
           reason     |-> First80(IF raw.reason = NoStr THEN "ai_decision" ELSE raw.reason),
           scenario   |-> IF raw.scenario = NoStr THEN "unknown" ELSE raw.scenario]

\* the validator with the lower clamp of the confidence forgotten
_validate_ai_decision_no_floor(raw, cur_rps, cur_burst) ==
  LET action    == Lower(IF raw.action = NoStr THEN "same" ELSE raw.action)
      new_rps   == IF raw.new_rps.k = "missing" THEN cur_rps ELSE raw.new_rps.v
      new_burst == IF raw.new_burst.k = "missing"
                   THEN IntOf(Max(10 * Scale, new_rps * 3))
                   ELSE IntOf(raw.new_burst.v)
      conf_raw  == IF raw.confidence.k = "missing" THEN 700 ELSE raw.confidence.v
  IN IF action \notin {"up", "down", "same"} THEN Empty
     ELSE IF raw.new_rps.k \in {"text", "nan"} THEN Empty
     ELSE IF ~(Scale <= new_rps /\ new_rps <= 1000 * Scale) THEN Empty
     ELSE IF raw.new_burst.k \in {"text", "nan"} THEN Empty
     ELSE IF new_burst < 5 \/ new_burst > 5000 THEN Empty
     ELSE IF raw.confidence.k = "text" THEN Empty
     ELSE [action     |-> action,
           new_rps    |-> new_rps,
           new_burst  |-> new_burst,
           confidence |-> Min(conf_raw, 1000),
           reason     |-> First80(IF raw.reason = NoStr THEN "ai_decision" ELSE raw.reason),
           scenario   |-> IF raw.scenario = NoStr THEN "unknown" ELSE raw.scenario]

\* max(0.5, min(c, 1.0)) as Python computes it: min(nan, 1.0) is nan, its first
\* argument, and max(0.5, nan) is 0.5, its first argument
ClampConfidence(c) ==
  IF c.k = "nan" THEN 500 ELSE Max(500, Min(c.v, 1000))

\* _validate_ai_decision(raw, cur_rps, cur_burst)
_validate_ai_decision(raw, cur_rps, cur_burst) ==
  LET action    == Lower(IF raw.action = NoStr THEN "same" ELSE raw.action)
      new_rps   == IF raw.new_rps.k = "missing" THEN cur_rps ELSE raw.new_rps.v
      new_burst == IF raw.new_burst.k = "missing"
                   THEN IntOf(Max(10 * Scale, new_rps * 3))
                   ELSE IntOf(raw.new_burst.v)
      conf_raw  == IF raw.confidence.k = "missing" THEN Num(700) ELSE raw.confidence
  IN IF action \notin {"up", "down", "same"} THEN Empty
     ELSE IF raw.new_rps.k = "text" THEN Empty                     \* float() raises
     ELSE IF raw.new_rps.k = "nan" THEN Empty                      \* 1.0 <= nan is false
     ELSE IF ~(Scale <= new_rps /\ new_rps <= 1000 * Scale) THEN Empty
     ELSE IF raw.new_burst.k \in {"text", "nan"} THEN Empty        \* int() raises
     ELSE IF new_burst < 5 \/ new_burst > 5000 THEN Empty
     ELSE IF raw.confidence.k = "text" THEN Empty                  \* float() raises
     ELSE [action     |-> action,
           new_rps    |-> new_rps,
           new_burst  |-> new_burst,
           confidence |-> ClampConfidence(conf_raw),
           reason     |-> First80(IF raw.reason = NoStr THEN "ai_decision" ELSE raw.reason),
           scenario   |-> IF raw.scenario = NoStr THEN "unknown" ELSE raw.scenario]

\* ---------------------------------------- decision engine and governance
None == 0 - 1     \* a key the record does not carry

\* is_large with the test of the lower bound forgotten
IsLarge_upper_only(new_rps, old_rps) ==
  /\ old_rps > 0
  /\ new_rps * Scale >= LARGE_CHANGE_FACTOR * old_rps

\* is_large of _apply_or_queue: ratio >= F or ratio <= 1 / F, ratio = new / old
IsLarge(new_rps, old_rps) ==
  /\ old_rps > 0
  /\ \/ new_rps * Scale >= LARGE_CHANGE_FACTOR * old_rps
     \/ new_rps * LARGE_CHANGE_FACTOR <= Scale * old_rps

\* _apply_or_queue with the test `action != "same"` of the queueing branch
\* forgotten
_apply_or_queue_same_queued(S, tenant, endpoint, action, new_rps, new_burst, confidence, reason, t) ==
  LET pair     == <<tenant, endpoint>>
      S1       == _ensure_policy_and_bucket(S, pair, t)
      old_rps  == S1.policies[pair].rps
      is_large == IsLarge(new_rps, old_rps)
  IN IF confidence >= DECISION_MIN_CONF /\ ~is_large /\ action # "same"
     THEN [store |->
             [apply_policy(S1, tenant, endpoint, new_rps, new_burst, t)
                EXCEPT !.decision_history = Append(@,
                  [id |-> None, tenant |-> tenant, endpoint |-> endpoint,
                   action |-> action, old_rps |-> old_rps, new_rps |-> new_rps,
                   new_burst |-> None, confidence |-> confidence, reason |-> reason,
                   created |-> None, scaling_factor |-> None, timestamp |-> t,
                   applied |-> TRUE, approved_at |-> None])],
           ret |-> [status |-> "applied", id |-> None]]
     ELSE [store |->
             [S1 EXCEPT !.pending_decisions = Append(@,
                  [id |-> S1.next_id, tenant |-> tenant, endpoint |-> endpoint,
                   action |-> action, new_rps |-> new_rps, new_burst |-> new_burst,
                   confidence |-> confidence, created |-> t, reason |-> reason,
                   old_rps |-> old_rps,
                   scaling_factor |-> IF old_rps > 0 THEN (new_rps * Scale) \div old_rps
                                      ELSE Scale]),
                        !.next_id = @ + 1],
           ret |-> [status |-> "pending", id |-> S1.next_id]]

\* _apply_or_queue keeping one pending decision per key: queueing drops the
\* decisions already pending for the key
_apply_or_queue_one_per_key(S, tenant, endpoint, action, new_rps, new_burst, confidence, reason, t) ==
  LET pair     == <<tenant, endpoint>>
      S1       == _ensure_policy_and_bucket(S, pair, t)
      old_rps  == S1.policies[pair].rps
      is_large == IsLarge(new_rps, old_rps)
      others   == SelectSeq(S1.pending_decisions,
                            LAMBDA d : <<d.tenant, d.endpoint>> # pair)
  IN IF confidence >= DECISION_MIN_CONF /\ ~is_large /\ action # "same"
     THEN [store |->
             [apply_policy(S1, tenant, endpoint, new_rps, new_burst, t)
                EXCEPT !.decision_history = Append(@,
                  [id |-> None, tenant |-> tenant, endpoint |-> endpoint,
                   action |-> action, old_rps |-> old_rps, new_rps |-> new_rps,
                   new_burst |-> None, confidence |-> confidence, reason |-> reason,
                   created |-> None, scaling_factor |-> None, timestamp |-> t,
                   applied |-> TRUE, approved_at |-> None])],
           ret |-> [status |-> "applied", id |-> None]]
     ELSE IF action # "same"
     THEN [store |->
             [S1 EXCEPT !.pending_decisions = Append(others,
                  [id |-> S1.next_id, tenant |-> tenant, endpoint |-> endpoint,
                   action |-> action, new_rps |-> new_rps, new_burst |-> new_burst,
                   confidence |-> confidence, created |-> t, reason |-> reason,
                   old_rps |-> old_rps,
                   scaling_factor |-> IF old_rps > 0 THEN (new_rps * Scale) \div old_rps
                                      ELSE Scale]),
                        !.next_id = @ + 1],
           ret |-> [status |-> "pending", id |-> S1.next_id]]
     ELSE [store |-> S1, ret |-> [status |-> "no_change", id |-> None]]

\* _apply_or_queue letting a decision of confidence 0.88 or more through
\* whatever the size of its change
_apply_or_queue_trusting(S, tenant, endpoint, action, new_rps, new_burst, confidence, reason, t) ==
  LET pair     == <<tenant, endpoint>>
      S1       == _ensure_policy_and_bucket(S, pair, t)
      old_rps  == S1.policies[pair].rps
      is_large == IsLarge(new_rps, old_rps) /\ confidence < 880
  IN IF confidence >= DECISION_MIN_CONF /\ ~is_large /\ action # "same"
     THEN [store |->
             [apply_policy(S1, tenant, endpoint, new_rps, new_burst, t)
                EXCEPT !.decision_history = Append(@,
                  [id |-> None, tenant |-> tenant, endpoint |-> endpoint,
                   action |-> action, old_rps |-> old_rps, new_rps |-> new_rps,
                   new_burst |-> None, confidence |-> confidence, reason |-> reason,
                   created |-> None, scaling_factor |-> None, timestamp |-> t,
                   applied |-> TRUE, approved_at |-> None])],
           ret |-> [status |-> "applied", id |-> None]]
     ELSE IF action # "same"
     THEN [store |->
             [S1 EXCEPT !.pending_decisions = Append(@,
                  [id |-> S1.next_id, tenant |-> tenant, endpoint |-> endpoint,
                   action |-> action, new_rps |-> new_rps, new_burst |-> new_burst,
                   confidence |-> confidence, created |-> t, reason |-> reason,
                   old_rps |-> old_rps,
                   scaling_factor |-> IF old_rps > 0 THEN (new_rps * Scale) \div old_rps
                                      ELSE Scale]),
                        !.next_id = @ + 1],
           ret |-> [status |-> "pending", id |-> S1.next_id]]
     ELSE [store |-> S1, ret |-> [status |-> "no_change", id |-> None]]

\* _apply_or_queue comparing with the rate the key started with instead of
\* the rate it has now
_apply_or_queue_stale_rps(S, tenant, endpoint, action, new_rps, new_burst, confidence, reason, t) ==
  LET pair     == <<tenant, endpoint>>
      S1       == _ensure_policy_and_bucket(S, pair, t)
      old_rps  == PlanBaseGet(tenant).rps
      is_large == IsLarge(new_rps, old_rps)
  IN IF confidence >= DECISION_MIN_CONF /\ ~is_large /\ action # "same"
     THEN [store |->
             [apply_policy(S1, tenant, endpoint, new_rps, new_burst, t)
                EXCEPT !.decision_history = Append(@,
                  [id |-> None, tenant |-> tenant, endpoint |-> endpoint,
                   action |-> action, old_rps |-> old_rps, new_rps |-> new_rps,
                   new_burst |-> None, confidence |-> confidence, reason |-> reason,
                   created |-> None, scaling_factor |-> None, timestamp |-> t,
                   applied |-> TRUE, approved_at |-> None])],
           ret |-> [status |-> "applied", id |-> None]]
     ELSE IF action # "same"
     THEN [store |->
             [S1 EXCEPT !.pending_decisions = Append(@,
                  [id |-> S1.next_id, tenant |-> tenant, endpoint |-> endpoint,
                   action |-> action, new_rps |-> new_rps, new_burst |-> new_burst,
                   confidence |-> confidence, created |-> t, reason |-> reason,
                   old_rps |-> old_rps,
                   scaling_factor |-> IF old_rps > 0 THEN (new_rps * Scale) \div old_rps
                                      ELSE Scale]),
                        !.next_id = @ + 1],
           ret |-> [status |-> "pending", id |-> S1.next_id]]
     ELSE [store |-> S1, ret |-> [status |-> "no_change", id |-> None]]

\* _apply_or_queue(...) at time t: the store afterwards and the dict returned
_apply_or_queue(S, tenant, endpoint, action, new_rps, new_burst, confidence, reason, t) ==
  LET pair     == <<tenant, endpoint>>
      S1       == _ensure_policy_and_bucket(S, pair, t)
      old_rps  == S1.policies[pair].rps
      is_large == IsLarge(new_rps, old_rps)
  IN IF confidence >= DECISION_MIN_CONF /\ ~is_large /\ action # "same"
     THEN [store |->
             [apply_policy(S1, tenant, endpoint, new_rps, new_burst, t)
                EXCEPT !.decision_history = Append(@,
                  [id |-> None, tenant |-> tenant, endpoint |-> endpoint,
                   action |-> action, old_rps |-> old_rps, new_rps |-> new_rps,
                   new_burst |-> None, confidence |-> confidence, reason |-> reason,
                   created |-> None, scaling_factor |-> None, timestamp |-> t,
                   applied |-> TRUE, approved_at |-> None])],
           ret |-> [status |-> "applied", id |-> None]]
     ELSE IF action # "same"
     THEN [store |->
             [S1 EXCEPT !.pending_decisions = Append(@,
                  [id |-> S1.next_id, tenant |-> tenant, endpoint |-> endpoint,
                   action |-> action, new_rps |-> new_rps, new_burst |-> new_burst,
                   confidence |-> confidence, created |-> t, reason |-> reason,
                   old_rps |-> old_rps,
                   scaling_factor |-> IF old_rps > 0 THEN (new_rps * Scale) \div old_rps
                                      ELSE Scale]),
                        !.next_id = @ + 1],
           ret |-> [status |-> "pending", id |-> S1.next_id]]
     ELSE [store |-> S1, ret |-> [status |-> "no_change", id |-> None]]

\* the record approve_decision / approve_all append to the history: the pending
\* dict itself, with "applied" and "approved_at" added
Approved(decision, t) ==
  [id |-> decision.id, tenant |-> decision.tenant, endpoint |-> decision.endpoint,
   action |-> decision.action, old_rps |-> decision.old_rps,
   new_rps |-> decision.new_rps, new_burst |-> decision.new_burst,
   confidence |-> decision.confidence, reason |-> decision.reason,
   created |-> decision.created, scaling_factor |-> decision.scaling_factor,
   timestamp |-> None, applied |-> TRUE, approved_at |-> t]

PendingIds(pd) == {pd[i].id : i \in 1..Len(pd)}
PendingGet(pd, id) == pd[CHOOSE i \in 1..Len(pd) : pd[i].id = id]
PendingPop(pd, id) == SelectSeq(pd, LAMBDA d : d.id # id)

\* approve_decision with pending_decisions.pop forgotten
approve_decision_no_pop(decision_id) ==
  /\ state_lock = "free"
  /\ IF decision_id \notin PendingIds(pending_decisions)
     THEN /\ response' = Resp("approve", 404, decision_id, 0)
          /\ UNCHANGED <<store_vars, gov_vars>>
     ELSE LET decision == PendingGet(pending_decisions, decision_id)
              S1 == apply_policy(Store, decision.tenant, decision.endpoint,
                                 decision.new_rps, decision.new_burst, now)
          IN /\ SetStore([S1 EXCEPT
                   !.decision_history  = Append(@, Approved(decision, now))])
             /\ response' = Resp("approve", 200, decision_id, 0)
  /\ UNCHANGED <<now, surge_vars, state_lock, loop, aa, n_replies,
                 hist_vars, val_vars, hq>>

\* approve_decision with pending_decisions.clear() in place of the pop
approve_decision_clear(decision_id) ==
  /\ state_lock = "free"
  /\ IF decision_id \notin PendingIds(pending_decisions)
     THEN /\ response' = Resp("approve", 404, decision_id, 0)
          /\ UNCHANGED <<store_vars, gov_vars>>
     ELSE LET decision == PendingGet(pending_decisions, decision_id)
              S1 == apply_policy(Store, decision.tenant, decision.endpoint,
                                 decision.new_rps, decision.new_burst, now)
          IN /\ SetStore([S1 EXCEPT
                   !.decision_history  = Append(@, Approved(decision, now)),
                   !.pending_decisions = <<>>])
             /\ response' = Resp("approve", 200, decision_id, 0)
  /\ UNCHANGED <<now, surge_vars, state_lock, loop, aa, n_replies,
                 hist_vars, val_vars, hq>>

\* POST /ai/approve/<decision_id>
approve_decision(decision_id) ==
  /\ state_lock = "free"
  /\ IF decision_id \notin PendingIds(pending_decisions)
     THEN /\ response' = Resp("approve", 404, decision_id, 0)
          /\ UNCHANGED <<store_vars, gov_vars>>
     ELSE LET decision == PendingGet(pending_decisions, decision_id)
              S1 == apply_policy(Store, decision.tenant, decision.endpoint,
                                 decision.new_rps, decision.new_burst, now)
          IN /\ SetStore([S1 EXCEPT
                   !.decision_history  = Append(@, Approved(decision, now)),
                   !.pending_decisions = PendingPop(@, decision_id)])
             /\ response' = Resp("approve", 200, decision_id, 0)
  /\ UNCHANGED <<now, surge_vars, state_lock, loop, aa, n_replies,
                 hist_vars, val_vars, hq>>

\* POST /ai/approve_all, in steps taken under the lock.  The first takes the
\* lock and evaluates list(pending_decisions.keys()); each further step is one
\* turn of the for loop; the step that finds the list exhausted also does
\* pending_decisions.clear(), releases the lock and returns the count.
AaIdle == [pc |-> "idle", approved_count |-> 0, ids |-> <<>>]

\* approve_all going through the pending decisions newest first
approve_all_begin_newest_first ==
  /\ aa.pc = "idle"
  /\ state_lock = "free"
  /\ LET ids == [i \in 1..Len(pending_decisions) |->
                pending_decisions[Len(pending_decisions) + 1 - i].id]
     IN IF ids = <<>>
        THEN /\ response' = Resp("approve_all", 200, 0, 0)
             /\ UNCHANGED <<aa, state_lock>>
        ELSE /\ state_lock' = "approve_all"
             /\ aa' = [pc |-> "apply", approved_count |-> 0, ids |-> ids]
             /\ UNCHANGED response
  /\ UNCHANGED <<now, store_vars, gov_vars, surge_vars, loop, n_replies,
                 hist_vars, val_vars, hq>>

\* approve_all entered without taking the lock
approve_all_begin_no_lock ==
  /\ aa.pc = "idle"
  /\ LET ids == [i \in 1..Len(pending_decisions) |-> pending_decisions[i].id]
     IN IF ids = <<>>
        THEN /\ response' = Resp("approve_all", 200, 0, 0)
             /\ UNCHANGED aa
        ELSE /\ aa' = [pc |-> "apply", approved_count |-> 0, ids |-> ids]
             /\ UNCHANGED response
  /\ UNCHANGED <<now, store_vars, gov_vars, surge_vars, state_lock, loop, n_replies,
                 hist_vars, val_vars, hq>>

approve_all_begin ==
  /\ aa.pc = "idle"
  /\ state_lock = "free"
  /\ LET ids == [i \in 1..Len(pending_decisions) |-> pending_decisions[i].id]
     IN IF ids = <<>>
        THEN /\ response' = Resp("approve_all", 200, 0, 0)
             /\ UNCHANGED <<aa, state_lock>>
        ELSE /\ state_lock' = "approve_all"
             /\ aa' = [pc |-> "apply", approved_count |-> 0, ids |-> ids]
             /\ UNCHANGED response
  /\ UNCHANGED <<now, store_vars, gov_vars, surge_vars, loop, n_replies,
                 hist_vars, val_vars, hq>>

\* approve_all with pending_decisions.clear() forgotten
approve_all_step_no_clear ==
  /\ aa.pc = "apply"
  /\ LET decision_id == Head(aa.ids)
         found == decision_id \in PendingIds(pending_decisions)
         decision == PendingGet(pending_decisions, decision_id)
         S1 == IF found
               THEN [apply_policy(Store, decision.tenant, decision.endpoint,
                                  decision.new_rps, decision.new_burst, now)
                       EXCEPT !.decision_history = Append(@, Approved(decision, now))]
               ELSE Store
         count == aa.approved_count + (IF found THEN 1 ELSE 0)
     IN IF Len(aa.ids) > 1
        THEN /\ SetStore(S1)
             /\ aa' = [aa EXCEPT !.ids = Tail(@), !.approved_count = count]
             /\ UNCHANGED <<state_lock, response>>
        ELSE /\ SetStore(S1)
             /\ aa' = AaIdle
             /\ state_lock' = "free"
             /\ response' = Resp("approve_all", 200, 0, count)
  /\ UNCHANGED <<now, surge_vars, loop, n_replies, hist_vars, val_vars, hq>>

\* approve_all leaving its critical section without giving the lock back
approve_all_step_keeps_lock ==
  /\ aa.pc = "apply"
  /\ LET decision_id == Head(aa.ids)
         found == decision_id \in PendingIds(pending_decisions)
         decision == PendingGet(pending_decisions, decision_id)
         S1 == IF found
               THEN [apply_policy(Store, decision.tenant, decision.endpoint,
                                  decision.new_rps, decision.new_burst, now)
                       EXCEPT !.decision_history = Append(@, Approved(decision, now))]
               ELSE Store
         count == aa.approved_count + (IF found THEN 1 ELSE 0)
     IN IF Len(aa.ids) > 1
        THEN /\ SetStore(S1)
             /\ aa' = [aa EXCEPT !.ids = Tail(@), !.approved_count = count]
             /\ UNCHANGED <<state_lock, response>>
        ELSE /\ SetStore([S1 EXCEPT !.pending_decisions = <<>>])
             /\ aa' = AaIdle
             /\ state_lock' = state_lock
             /\ response' = Resp("approve_all", 200, 0, count)
  /\ UNCHANGED <<now, surge_vars, loop, n_replies, hist_vars, val_vars, hq>>

\* a turn of approve_all's loop that applies the decision and keeps no record
approve_all_step_unrecorded ==
  /\ aa.pc = "apply"
  /\ LET decision_id == Head(aa.ids)
         found == decision_id \in PendingIds(pending_decisions)
         decision == PendingGet(pending_decisions, decision_id)
         S1 == IF found
               THEN apply_policy(Store, decision.tenant, decision.endpoint,
                                 decision.new_rps, decision.new_burst, now)
               ELSE Store
         count == aa.approved_count + (IF found THEN 1 ELSE 0)
     IN IF Len(aa.ids) > 1
        THEN /\ SetStore(S1)
             /\ aa' = [aa EXCEPT !.ids = Tail(@), !.approved_count = count]
             /\ UNCHANGED <<state_lock, response>>
        ELSE /\ SetStore([S1 EXCEPT !.pending_decisions = <<>>])
             /\ aa' = AaIdle
             /\ state_lock' = "free"
             /\ response' = Resp("approve_all", 200, 0, count)
  /\ UNCHANGED <<now, surge_vars, loop, n_replies, hist_vars, val_vars, hq>>

approve_all_step ==
  /\ aa.pc = "apply"
  /\ LET decision_id == Head(aa.ids)
         found == decision_id \in PendingIds(pending_decisions)
         decision == PendingGet(pending_decisions, decision_id)
         S1 == IF found
               THEN [apply_policy(Store, decision.tenant, decision.endpoint,
                                  decision.new_rps, decision.new_burst, now)
                       EXCEPT !.decision_history = Append(@, Approved(decision, now))]
               ELSE Store
         count == aa.approved_count + (IF found THEN 1 ELSE 0)
     IN IF Len(aa.ids) > 1
        THEN /\ SetStore(S1)
             /\ aa' = [aa EXCEPT !.ids = Tail(@), !.approved_count = count]
             /\ UNCHANGED <<state_lock, response>>
        ELSE /\ SetStore([S1 EXCEPT !.pending_decisions = <<>>])
             /\ aa' = AaIdle
             /\ state_lock' = "free"
             /\ response' = Resp("approve_all", 200, 0, count)
  /\ UNCHANGED <<now, surge_vars, loop, n_replies, hist_vars, val_vars, hq>>

\* -------------------------------------------------------- surge predictor
\* the branch of the if/elif chain of _analyze_surge_patterns that a trend and a
\* current rate take
SurgeBand(trend, current_rps) ==
  IF 200 <= trend /\ trend <= 2000 THEN "gradual"
  ELSE IF 2000 < trend /\ trend <= 10000 THEN "moderate"
  ELSE IF trend > 10000 \/ current_rps > 50000 THEN "severe"
  ELSE "none"

\* the surge analysis returning its zero signal only for an empty history
_analyze_surge_patterns_no_guard(hist, pair, current_rps, t) ==
  LET added  == Append(hist, [timestamp |-> t, rps |-> current_rps])
      cutoff == t - 300
      kept   == SelectSeq(added, LAMBDA h : h.timestamp > cutoff)
      n      == Len(kept)
      recent == IF n <= 3 THEN kept ELSE SubSeq(kept, n - 2, n)
      trend  == IF Len(recent) >= 2
                THEN (recent[Len(recent)].rps - recent[1].rps) \div Len(recent)
                ELSE 0
      base   == IF 200 <= trend /\ trend <= 2000
                  THEN [p |-> Min(30000, 10000 + trend * 8), peak |-> current_rps + trend * 2]
                ELSE IF 2000 < trend /\ trend <= 10000
                  THEN [p |-> Min(70000, 30000 + trend * 5), peak |-> current_rps + trend * 3]
                ELSE IF trend > 10000 \/ current_rps > 50000
                  THEN [p |-> Min(100000, 70000 + Min(30000, trend)),
                        peak |-> current_rps + trend * 4]
                ELSE [p |-> 0, peak |-> current_rps]
      mult   == 800 + (_calculate_business_priority(pair[1]) * 150) \div Scale
      prob   == Min(100000, (base.p * mult) \div Scale)
  IN IF n < 1
     THEN [history |-> kept, surge_probability |-> 0, trend |-> 0,
           predicted_peak |-> current_rps]
     ELSE [history |-> kept, surge_probability |-> prob, trend |-> trend,
           predicted_peak |-> Max(current_rps, base.peak)]

\* the surge analysis with a moderate band whose probability falls as the trend
\* grows
_analyze_surge_patterns_falling(hist, pair, current_rps, t) ==
  LET added  == Append(hist, [timestamp |-> t, rps |-> current_rps])
      cutoff == t - 300
      kept   == SelectSeq(added, LAMBDA h : h.timestamp > cutoff)
      n      == Len(kept)
      recent == IF n <= 3 THEN kept ELSE SubSeq(kept, n - 2, n)
      trend  == IF Len(recent) >= 2
                THEN (recent[Len(recent)].rps - recent[1].rps) \div Len(recent)
                ELSE 0
      base   == IF 200 <= trend /\ trend <= 2000
                  THEN [p |-> Min(30000, 10000 + trend * 8), peak |-> current_rps + trend * 2]
                ELSE IF 2000 < trend /\ trend <= 10000
                  THEN [p |-> Min(70000, 80000 - trend * 5), peak |-> current_rps + trend * 3]
                ELSE IF trend > 10000 \/ current_rps > 50000
                  THEN [p |-> Min(100000, 70000 + Min(30000, trend)),
                        peak |-> current_rps + trend * 4]
                ELSE [p |-> 0, peak |-> current_rps]
      mult   == 800 + (_calculate_business_priority(pair[1]) * 150) \div Scale
      prob   == Min(100000, (base.p * mult) \div Scale)
  IN IF n < 2
     THEN [history |-> kept, surge_probability |-> 0, trend |-> 0,
           predicted_peak |-> current_rps]
     ELSE [history |-> kept, surge_probability |-> prob, trend |-> trend,
           predicted_peak |-> Max(current_rps, base.peak)]

\* _analyze_surge_patterns(pair, current_rps) at time t, on the history list of
\* the pair: the list afterwards and the dict returned
_analyze_surge_patterns(hist, pair, current_rps, t) ==
  LET added  == Append(hist, [timestamp |-> t, rps |-> current_rps])
      cutoff == t - 300
      kept   == SelectSeq(added, LAMBDA h : h.timestamp > cutoff)
      n      == Len(kept)
      recent == IF n <= 3 THEN kept ELSE SubSeq(kept, n - 2, n)
      trend  == IF Len(recent) >= 2
                THEN (recent[Len(recent)].rps - recent[1].rps) \div Len(recent)
                ELSE 0
      base   == IF 200 <= trend /\ trend <= 2000
                  THEN [p |-> Min(30000, 10000 + trend * 8), peak |-> current_rps + trend * 2]
                ELSE IF 2000 < trend /\ trend <= 10000
                  THEN [p |-> Min(70000, 30000 + trend * 5), peak |-> current_rps + trend * 3]
                ELSE IF trend > 10000 \/ current_rps > 50000
                  THEN [p |-> Min(100000, 70000 + Min(30000, trend)),
                        peak |-> current_rps + trend * 4]
                ELSE [p |-> 0, peak |-> current_rps]
      mult   == 800 + (_calculate_business_priority(pair[1]) * 150) \div Scale
      prob   == Min(100000, (base.p * mult) \div Scale)
  IN IF n < 2
     THEN [history |-> kept, surge_probability |-> 0, trend |-> 0,
           predicted_peak |-> current_rps]
     ELSE [history |-> kept, surge_probability |-> prob, trend |-> trend,
           predicted_peak |-> Max(current_rps, base.peak)]

\* the tier x severity table of _preemptive_surge_scaling
ScalingFactor(tenant, surge_prob, trend) ==
  IF surge_prob >= 80000 \/ trend > 15000
    THEN [f |-> IF tenant = "ent" THEN 8000 ELSE IF tenant = "pro" THEN 5000 ELSE 3000,
          action_type |-> "ddos_protection"]
  ELSE IF surge_prob >= 50000
    THEN [f |-> IF tenant = "ent" THEN 4000 ELSE IF tenant = "pro" THEN 2500 ELSE 1800,
          action_type |-> "surge_scaling"]
  ELSE [f |-> IF tenant = "ent" THEN 2200 ELSE IF tenant = "pro" THEN 1700 ELSE 1400,
        action_type |-> "growth_scaling"]

NoSurge == [action |-> "none", new_rps |-> 0, new_burst |-> 0, scaling_factor |-> Scale,
            confidence |-> 0, reason |-> "", probability |-> 0]

\* _preemptive_surge_scaling(tenant, endpoint, surge_data) on the policies pol:
\* the dict returned (the reason is the action type, without the "_NNpct" suffix)
_preemptive_surge_scaling(pol, tenant, endpoint, surge_data) ==
  LET pair           == <<tenant, endpoint>>
      current_policy == IF pair \in DOMAIN pol THEN pol[pair]
                        ELSE [rps |-> 10000, burst |-> 30]
      surge_prob     == surge_data.surge_probability
      sf             == ScalingFactor(tenant, surge_prob, surge_data.trend)
  IN IF surge_prob < 25000 THEN NoSurge
     ELSE [action         |-> "surge_scale",
           new_rps        |-> Min(500000, (current_policy.rps * sf.f) \div Scale),
           new_burst      |-> Min(2000, IntOf(current_policy.burst * sf.f)),
           scaling_factor |-> sf.f,
           confidence     |-> 880 + surge_prob \div 500,
           reason         |-> sf.action_type,
           probability    |-> surge_prob]

\* _classify_traffic_scenario
_classify_traffic_scenario(tenant, ok_rps, blocked_ratio, utilization) ==
  IF ok_rps > 50000 \/ (utilization > 2000 /\ blocked_ratio > 600) THEN "ddos"
  ELSE IF utilization > 800 /\ blocked_ratio > 300 THEN "surge"
  ELSE IF utilization > 600 /\ blocked_ratio < 300 THEN "normal"
  ELSE IF utilization < 300 THEN "light"
  ELSE "stable"

\* --------------------------------------------------------------- oracle
\* The texts a reply that is no JSON may carry, and the words
\* _extract_intent_from_response looks for in response_text.lower().
OracleTexts == {"please increase the limit", "scale down a bit", "decrease", "no json here"}

HasUpWord(text)   == text \in {"please increase the limit", "scale down a bit"}
HasDownWord(text) == text \in {"scale down a bit", "decrease"}

IntentReason(scenario) ==
  CASE scenario = "ddos"   -> "ddos_intent_extracted"
    [] scenario = "surge"  -> "surge_intent_extracted"
    [] scenario = "normal" -> "normal_intent_extracted"
    [] scenario = "light"  -> "light_intent_extracted"
    [] OTHER               -> "stable_intent_extracted"

\* _extract_intent_from_response(response_text, current_rps, scenario)
_extract_intent_from_response(response_text, current_rps, scenario) ==
  LET up      == HasUpWord(response_text)
      down    == ~up /\ HasDownWord(response_text)
      action  == IF up THEN "up" ELSE IF down THEN "down" ELSE "same"
      new_rps == IF up THEN (IF scenario = "ddos" THEN current_rps * 3
                             ELSE IF scenario = "surge" THEN current_rps * 2
                             ELSE (current_rps * 3) \div 2)
                 ELSE IF down THEN (current_rps * 8) \div 10
                 ELSE current_rps
  IN [action     |-> action,
      new_rps    |-> Num(Min(100 * Scale, new_rps)),
      new_burst  |-> Num(IntOf(new_rps * 3) * Scale),
      confidence |-> Num(700),
      reason     |-> IntentReason(scenario),
      scenario   |-> scenario]

\* The JSON objects the oracle returns in the model.
Raw(action, new_rps, new_burst, confidence) ==
  [action |-> action, new_rps |-> Num(new_rps), new_burst |-> Num(new_burst),
   confidence |-> Num(confidence), reason |-> NoStr, scenario |-> NoStr]

OracleRaws ==
  { Raw("up",   25000,   75000, 900),     \* the reply of the prompt's example
    Raw("up",   27000,   81000, 900),     \* 27 / 15 is exactly 1.8
    Raw("down", 10000,    5000, 900),
    Raw("down",  5000,   15000, 900),
    Raw("up",   20000,   60000, 300),
    Raw("up", 2000000, 6000000, 900),
    Raw("same", 25000,   75000, 900) }

\* ------------------------------------------------ heuristic control loop
LoopIdle(wake, cycles) ==
  [pc |-> "sleep", wake |-> wake, cycles |-> cycles, active_pairs |-> <<>>,
   stats_snapshot |-> [ok |-> 0, blocked |-> 0, since |-> 0],
   current_policy |-> [rps |-> 0, burst |-> 0],
   ok_rps |-> 0, blocked_ratio |-> 0, utilization |-> 0,
   prompt_policy |-> [rps |-> 0, burst |-> 0], attempt |-> 0,
   surge_data |-> [surge_probability |-> 0, trend |-> 0],
   surge_decision |-> NoSurge,
   decision |-> Empty]

\* `continue` / the end of the body of `for pair in active_pairs`
LoopAdvance(l, t) ==
  IF Len(l.active_pairs) > 1
  THEN [LoopIdle(l.wake, l.cycles) EXCEPT !.pc = "drain", !.active_pairs = Tail(l.active_pairs)]
  ELSE LoopIdle(t + HEURISTIC_EVERY_SEC, l.cycles)

\* time.sleep(HEURISTIC_EVERY_SEC) is over: active_pairs = list(policies.keys())
LoopWake ==
  /\ loop.pc = "sleep"
  /\ now >= loop.wake
  /\ loop.cycles < MaxCycles
  /\ state_lock = "free"
  /\ LET keys == SelectSeq(PolicyOrder, LAMBDA k : k \in DOMAIN policies)
     IN loop' = IF keys = <<>> THEN LoopIdle(now + HEURISTIC_EVERY_SEC, loop.cycles + 1)
                ELSE [LoopIdle(loop.wake, loop.cycles + 1) EXCEPT
                        !.pc = "drain", !.active_pairs = keys]
  /\ UNCHANGED <<now, store_vars, gov_vars, surge_vars, state_lock, aa, response,
                 bound_vars, hist_vars, val_vars, hq>>

\* lines 699-714 with the reset of line 705 forgotten
LoopDrain_no_reset ==
  /\ loop.pc = "drain"
  /\ state_lock = "free"
  /\ LET pair   == Head(loop.active_pairs)
         S1     == _ensure_policy_and_bucket(Store, pair, now)
         snap   == S1.stats[pair]
         pol    == S1.policies[pair]
         window == Max(1, now - snap.since)
         ok_rps == (snap.ok * Scale) \div window
         total  == snap.ok + snap.blocked
     IN /\ SetStore(S1)
        /\ drained' = IF pair \in DOMAIN drained
                       THEN [drained EXCEPT ![pair] =
                               [ok |-> @.ok + snap.ok, blocked |-> @.blocked + snap.blocked]]
                       ELSE drained
        /\ loop' = [loop EXCEPT
              !.pc = "surge",
              !.stats_snapshot = snap,
              !.current_policy = pol,
              !.ok_rps = ok_rps,
              !.blocked_ratio = IF total > 0 THEN (snap.blocked * Scale) \div total ELSE 0,
              !.utilization = (ok_rps * Scale) \div pol.rps]
  /\ UNCHANGED <<now, surge_vars, state_lock, aa, response, bound_vars,
                 allowed, denied, val_vars, hq>>

\* lines 699-714: snapshot and reset of the pair's stats, then the metrics
LoopDrain ==
  /\ loop.pc = "drain"
  /\ state_lock = "free"
  /\ LET pair   == Head(loop.active_pairs)
         S1     == _ensure_policy_and_bucket(Store, pair, now)
         snap   == S1.stats[pair]
         pol    == S1.policies[pair]
         window == Max(1, now - snap.since)
         ok_rps == (snap.ok * Scale) \div window
         total  == snap.ok + snap.blocked
     IN /\ SetStore([S1 EXCEPT !.stats[pair] = [ok |-> 0, blocked |-> 0, since |-> now]])
        /\ drained' = IF pair \in DOMAIN drained
                       THEN [drained EXCEPT ![pair] =
                               [ok |-> @.ok + snap.ok, blocked |-> @.blocked + snap.blocked]]
                       ELSE drained
        /\ loop' = [loop EXCEPT
              !.pc = "surge",
              !.stats_snapshot = snap,
              !.current_policy = pol,
              !.ok_rps = ok_rps,
              !.blocked_ratio = IF total > 0 THEN (snap.blocked * Scale) \div total ELSE 0,
              !.utilization = (ok_rps * Scale) \div pol.rps]
  /\ UNCHANGED <<now, surge_vars, state_lock, aa, response, bound_vars,
                 allowed, denied, val_vars, hq>>

\* surge_history[pair], which _analyze_surge_patterns creates empty on demand
SurgeHistoryOf(pair) ==
  IF pair \in DOMAIN surge_history THEN surge_history[pair] ELSE <<>>

\* line 721, _analyze_surge_patterns: the history of the key is read and written
\* with no lock taken
LoopSurge ==
  /\ loop.pc = "surge"
  /\ LET pair == Head(loop.active_pairs)
         sd   == _analyze_surge_patterns(SurgeHistoryOf(pair), pair, loop.ok_rps, now)
     IN /\ surge_history' = (pair :> sd.history) @@ surge_history
        /\ loop' = [loop EXCEPT !.pc = "preempt",
                      !.surge_data = [surge_probability |-> sd.surge_probability,
                                      trend |-> sd.trend]]
  /\ UNCHANGED <<now, store_vars, gov_vars, surge_predictions, state_lock, aa, response,
                 bound_vars, hist_vars, val_vars, hq>>

\* lines 615-664, _preemptive_surge_scaling up to its new limits: the policy is
\* read under the lock, the rest is computed from the copy
LoopPreempt ==
  /\ loop.pc = "preempt"
  /\ state_lock = "free"
  /\ LET pair == Head(loop.active_pairs)
         dec  == _preemptive_surge_scaling(policies, pair[1], pair[2], loop.surge_data)
     IN loop' = IF dec.action = "surge_scale"
                THEN [loop EXCEPT !.pc = "predict", !.surge_decision = dec]
                ELSE [loop EXCEPT !.pc = "call"]
  /\ UNCHANGED <<now, store_vars, gov_vars, surge_vars, state_lock, aa, response,
                 bound_vars, hist_vars, val_vars, hq>>

\* lines 666-684 and 724-736: the prediction is stored, with no lock taken, and
\* the proposal is what _apply_or_queue will be called with
LoopPredict ==
  /\ loop.pc = "predict"
  /\ LET pair == Head(loop.active_pairs)
         dec  == loop.surge_decision
     IN /\ surge_predictions' =
              (pair :> [probability |-> dec.probability,
                        scaling_factor |-> dec.scaling_factor,
                        predicted_at |-> now, new_rps |-> dec.new_rps,
                        action_type |-> dec.reason]) @@ surge_predictions
        /\ loop' = [loop EXCEPT !.pc = "resolve",
                      !.decision = [action |-> "up", new_rps |-> dec.new_rps,
                                    new_burst |-> dec.new_burst,
                                    confidence |-> dec.confidence,
                                    reason |-> dec.reason, scenario |-> "surge_scale"]]
  /\ UNCHANGED <<now, store_vars, gov_vars, surge_history, state_lock, aa, response,
                 bound_vars, hist_vars, val_vars, hq>>

\* the oracle call entered with the lock of lines 257-258 still held
LoopCall_holding_lock ==
  /\ loop.pc = "call"
  /\ state_lock = "free"
  /\ LET pair  == Head(loop.active_pairs)
         total == loop.stats_snapshot.ok + loop.stats_snapshot.blocked
     IN /\ loop' = IF total = 0 THEN LoopAdvance(loop, now)
                   ELSE [loop EXCEPT !.pc = "oracle", !.attempt = 0,
                           !.prompt_policy = policies[pair]]
        /\ state_lock' = IF total = 0 THEN "free" ELSE "loop"
  /\ UNCHANGED <<now, store_vars, gov_vars, surge_vars, aa, response,
                 bound_vars, hist_vars, val_vars, hq>>

\* lines 773-782 and 252-286: _detect_anomaly (a locked read), the activity test,
\* the locked read of the policy that opens _call_ollama_ai, and the prompt built
\* from tenant.upper(); an exception raised here is caught nowhere and ends the
\* thread of _heuristics_loop
LoopCall ==
  /\ loop.pc = "call"
  /\ state_lock = "free"
  /\ LET pair  == Head(loop.active_pairs)
         total == loop.stats_snapshot.ok + loop.stats_snapshot.blocked
     IN loop' = IF total = 0 THEN LoopAdvance(loop, now)
                ELSE IF ~IsStr(pair[1])
                THEN [loop EXCEPT !.pc = "stopped"]   \* tenant.upper() raises, line 265
                ELSE [loop EXCEPT !.pc = "oracle", !.attempt = 0,
                        !.prompt_policy =
                           IF pair \in DOMAIN policies THEN policies[pair]
                           ELSE [rps |-> PlanBaseGet(pair[1]).rps,
                                 burst |-> IntOf(PlanBaseGet(pair[1]).rps * 3)]]
  /\ UNCHANGED <<now, store_vars, gov_vars, surge_vars, state_lock, aa, response,
                 bound_vars, hist_vars, val_vars, hq>>

\* lines 783-786 with the test `if ai_decision:` forgotten
LoopValidated_no_test(ai_raw) ==
  [loop EXCEPT !.pc = "resolve",
               !.decision = _validate_ai_decision(ai_raw, loop.current_policy.rps,
                                                  loop.current_policy.burst)]

\* lines 783-786: validation of what _call_ollama_ai returned; an empty result
\* leads to the else branch of line 801, anything else to _apply_or_queue
LoopValidated(ai_raw) ==
  LET ai_decision == _validate_ai_decision(ai_raw, loop.current_policy.rps,
                                           loop.current_policy.burst)
  IN IF ai_decision = Empty
     THEN [loop EXCEPT !.pc = "rejected", !.decision = Empty]
     ELSE [loop EXCEPT !.pc = "resolve", !.decision = ai_decision]

\* the retry loop of _call_ollama_ai making one attempt more than
\* OLLAMA_MAX_RETRIES
LoopOracleFail_extra_attempt(kind) ==
  /\ loop.pc = "oracle"
  /\ loop' = IF loop.attempt + 1 <= OLLAMA_MAX_RETRIES
             THEN [loop EXCEPT !.attempt = @ + 1]
             ELSE LoopValidated(EmptyRaw)
  /\ UNCHANGED <<now, store_vars, gov_vars, surge_vars, state_lock, aa, response,
                 bound_vars, hist_vars, val_vars, hq>>

\* one attempt of the retry loop of _call_ollama_ai fails without a reply:
\* a timeout, another exception, or a status other than 200
LoopOracleFail(kind) ==
  /\ loop.pc = "oracle"
  /\ loop' = IF loop.attempt + 1 < OLLAMA_MAX_RETRIES
             THEN [loop EXCEPT !.attempt = @ + 1]
             ELSE LoopValidated(EmptyRaw)
  /\ UNCHANGED <<now, store_vars, gov_vars, surge_vars, state_lock, aa, response,
                 bound_vars, hist_vars, val_vars, hq>>

\* one attempt gets a reply that holds a JSON object
LoopOracleReply(raw) ==
  /\ loop.pc = "oracle"
  /\ n_replies < MaxReplies
  /\ n_replies' = n_replies + 1
  /\ loop' = LoopValidated(raw)
  /\ UNCHANGED <<now, store_vars, gov_vars, surge_vars, state_lock, aa, response,
                 hist_vars, val_vars, hq>>

\* one attempt gets a reply that does not parse
LoopOracleParseError(text) ==
  /\ loop.pc = "oracle"
  /\ n_replies < MaxReplies
  /\ n_replies' = n_replies + 1
  /\ LET pair == Head(loop.active_pairs)
         scenario == _classify_traffic_scenario(pair[1], loop.ok_rps,
                                                loop.blocked_ratio, loop.utilization)
     IN loop' = IF loop.attempt = OLLAMA_MAX_RETRIES - 1
                THEN LoopValidated(_extract_intent_from_response(
                                     text, loop.prompt_policy.rps, scenario))
                ELSE [loop EXCEPT !.attempt = @ + 1]
  /\ UNCHANGED <<now, store_vars, gov_vars, surge_vars, state_lock, aa, response,
                 hist_vars, val_vars, hq>>

\* the else branch of line 801 ending the thread instead of continuing
LoopRejected_stops ==
  /\ loop.pc = "rejected"
  /\ loop' = [loop EXCEPT !.pc = "stopped"]
  /\ UNCHANGED <<now, store_vars, gov_vars, surge_vars, state_lock, aa, response,
                 bound_vars, hist_vars, val_vars, hq>>

\* lines 801-804: no decision, `continue`
LoopRejected ==
  /\ loop.pc = "rejected"
  /\ loop' = LoopAdvance(loop, now)
  /\ UNCHANGED <<now, store_vars, gov_vars, surge_vars, state_lock, aa, response,
                 bound_vars, hist_vars, val_vars, hq>>

\* the call of _apply_or_queue for a preemptive proposal with the `continue` of
\* line 737 forgotten: the oracle is consulted as well
LoopResolve_no_continue ==
  /\ loop.pc = "resolve"
  /\ state_lock = "free"
  /\ LET pair == Head(loop.active_pairs)
         d    == loop.decision
         r    == _apply_or_queue(Store, pair[1], pair[2], d.action, d.new_rps,
                                 d.new_burst, d.confidence, d.reason, now)
     IN /\ SetStore(r.store)
        /\ loop' = IF d.scenario = "surge_scale"
                   THEN [loop EXCEPT !.pc = "call", !.decision = Empty]
                   ELSE LoopAdvance(loop, now)
  /\ UNCHANGED <<now, surge_vars, state_lock, aa, response, bound_vars,
                 hist_vars, val_vars, hq>>

\* lines 729-737 and 807-814: the call of _apply_or_queue
LoopResolve ==
  /\ loop.pc = "resolve"
  /\ state_lock = "free"
  /\ LET pair == Head(loop.active_pairs)
         d    == loop.decision
         r    == _apply_or_queue(Store, pair[1], pair[2], d.action, d.new_rps,
                                 d.new_burst, d.confidence, d.reason, now)
     IN /\ SetStore(r.store)
        /\ loop' = LoopAdvance(loop, now)
  /\ UNCHANGED <<now, surge_vars, state_lock, aa, response, bound_vars,
                 hist_vars, val_vars, hq>>

\* ---------------------------------------------- the validator on its own
\* The replies the validator is run on: every combination of these fields.
ValActions     == {"up", "down", "same", "UP", "Down", "scale_up", NoStr}
ValRps         == {NoNum, BadNum, Num(500), Num(1000), Num(25000), Num(1000000),
                   Num(1000001), Num(2000000)}
ValBursts      == {NoNum, BadNum, Num(4999), Num(5000), Num(75500), Num(5000000),
                   Num(5000900), Num(5001000)}
ValConfidences == {NoNum, BadNum, NaNNum, Num(0 - 200), Num(300), Num(499), Num(500),
                   Num(900), Num(1000), Num(1001), Num(1500)}
ValReasons     == {NoStr, LongReason}
ValCurrent     == {[rps |-> 3000, burst |-> 10], [rps |-> 15000, burst |-> 40]}

ValRaws == [action : ValActions, new_rps : ValRps, new_burst : ValBursts,
            confidence : ValConfidences, reason : ValReasons, scenario : {NoStr}]

\* the validator has not been called yet
NotRun == [Empty EXCEPT !.action = "<not run>"]

\* the call _validate_ai_decision(raw, cur.rps, cur.burst) on the input v_raw
Validate ==
  /\ v_out = NotRun
  /\ v_out' = _validate_ai_decision(v_raw.raw, v_raw.cur.rps, v_raw.cur.burst)
  /\ UNCHANGED <<now, store_vars, gov_vars, surge_vars, state_lock, loop, aa,
                 response, bound_vars, hist_vars, v_raw, hq>>

\* ------------------------------------------------------------ behaviours
\* the module-level initialisation (lines 105-114 and 1338-1341)
InitState ==
  /\ now = 0
  /\ policies = [p \in Pairs |-> [rps |-> PlanBaseGet(p[1]).rps,
                                   burst |-> PlanBaseGet(p[1]).burst]]
  /\ buckets  = [p \in Pairs |-> [tokens |-> PlanBaseGet(p[1]).burst * Scale, last |-> 0]]
  /\ stats    = [p \in Pairs |-> [ok |-> 0, blocked |-> 0, since |-> 0]]
  /\ pending_decisions = <<>>
  /\ decision_history = <<>>
  /\ surge_history = [p \in Pairs |-> <<>>]
  /\ surge_predictions = [p \in Pairs |-> [probability |-> 0, scaling_factor |-> 0,
                             predicted_at |-> 0, new_rps |-> 0, action_type |-> ""]]
  /\ state_lock = "free"
  /\ loop = LoopIdle(HEURISTIC_EVERY_SEC, 0)
  /\ aa = AaIdle
  /\ next_id = 1
  /\ response = Resp("", 0, 0, 0)
  /\ hq = HqIdle(<<>>, 0)
  /\ n_replies = 0
  /\ allowed = [p \in Pairs |-> 0]
  /\ denied  = [p \in Pairs |-> 0]
  /\ drained = [p \in Pairs |-> [ok |-> 0, blocked |-> 0]]

Init ==
  /\ InitState
  /\ v_raw = [raw |-> EmptyRaw, cur |-> [rps |-> 10000, burst |-> 30]]
  /\ v_out = NotRun

Next ==
  \/ Tick
  \/ \E key \in RequestKeys : Admitted < MaxAdmits /\ _handle_request(key, EndpointA)
  \/ LoopWake
  \/ LoopDrain
  \/ LoopSurge
  \/ LoopPreempt
  \/ LoopPredict
  \/ LoopCall
  \/ \E kind \in {"timeout", "exception", "http_error"} : LoopOracleFail(kind)
  \/ \E raw \in OracleRaws : LoopOracleReply(raw)
  \/ \E text \in OracleTexts : LoopOracleParseError(text)
  \/ LoopRejected
  \/ LoopResolve
  \/ \E id \in 1..next_id : approve_decision(id)
  \/ approve_all_begin
  \/ approve_all_step

Spec == Init /\ [][Next]_vars

\* The control loop's thread and a running approve_all are scheduled again and
\* again, and every attempt of the oracle call ends (the request carries a
\* timeout); requests, approvals and the clock are under no obligation.
NextLive ==
  \/ Tick
  \/ \E key \in RequestKeys : Admitted < MaxLiveAdmits /\ _handle_request(key, EndpointA)
  \/ LoopWake
  \/ LoopDrain
  \/ LoopSurge
  \/ LoopPreempt
  \/ LoopCall
  \/ \E kind \in {"timeout", "exception", "http_error"} : LoopOracleFail(kind)
  \/ \E raw \in OracleRaws : LoopOracleReply(raw)
  \/ \E text \in OracleTexts : LoopOracleParseError(text)
  \/ LoopRejected
  \/ LoopResolve
  \/ \E id \in 1..next_id : approve_decision(id)
  \/ approve_all_begin
  \/ approve_all_step

SpecLive ==
  /\ Init /\ [][NextLive]_vars
  /\ WF_vars(LoopDrain)
  /\ WF_vars(LoopSurge)
  /\ WF_vars(LoopPreempt)
  /\ WF_vars(LoopCall)
  /\ WF_vars(\E kind \in {"timeout", "exception", "http_error"} : LoopOracleFail(kind))
  /\ WF_vars(LoopRejected)
  /\ WF_vars(LoopResolve)
  /\ WF_vars(approve_all_step)

\* the rates the surge analysis is called with, in thousandths of a request per
\* second
Rates == {0, 10000, 20000, 60000, 61000, 400000}

\* one call _analyze_surge_patterns(pair, current_rps)
Analyze(pair, current_rps) ==
  /\ Len(SurgeHistoryOf(FirstPair)) + Len(SurgeHistoryOf(LastPair)) < MaxSamples
  /\ surge_history' =
        (pair :> _analyze_surge_patterns(SurgeHistoryOf(pair), pair, current_rps, now).history)
           @@ surge_history
  /\ UNCHANGED <<now, store_vars, gov_vars, surge_predictions, state_lock, loop, aa,
                 response, bound_vars, hist_vars, val_vars, hq>>

\* the clock between two calls of the surge analysis, half a history window at a
\* time
Wait ==
  /\ now + 150 <= MaxSurgeTime
  /\ now' = now + 150
  /\ UNCHANGED <<store_vars, gov_vars, surge_vars, state_lock, loop, aa, response,
                 bound_vars, hist_vars, val_vars, hq>>

\* The surge analysis on its own: any sequence of calls, any rates.
NextSurge ==
  \/ Wait
  \/ \E pair \in Pairs, current_rps \in Rates : Analyze(pair, current_rps)

SpecSurge == Init /\ [][NextSurge]_vars

\* One key's bucket on its own: requests of the free plan against the clock,
\* the policy staying the plan's.
NextBucket ==
  \/ Second
  \/ Admitted < MaxBucketAdmits /\ _handle_request("free-key", EndpointA)

SpecBucket == Init /\ [][NextBucket]_vars

\* the oracle's replies next to the demo endpoints: a change that is queued and
\* a change that is applied
DemoRaws ==
  { Raw("up", 600000, 1800000, 900),
    Raw("up",  25000,   75000, 900) }

\* Requests, the control loop, the governance endpoints and the demo endpoints
\* side by side; the traffic is too low for a preemptive proposal, and the
\* governance and reset endpoints are called when there is a pending decision.
NextDemo ==
  \/ Tick
  \/ Admitted < MaxDemoAdmits /\ _handle_request("ent-key", EndpointA)
  \/ LoopWake
  \/ LoopDrain
  \/ LoopSurge
  \/ LoopPreempt
  \/ LoopCall
  \/ \E kind \in {"timeout", "exception", "http_error"} : LoopOracleFail(kind)
  \/ \E raw \in DemoRaws : LoopOracleReply(raw)
  \/ LoopResolve
  \/ \E id \in PendingIds(pending_decisions) : approve_decision(id)
  \/ pending_decisions # <<>> /\ approve_all_begin
  \/ approve_all_step
  \/ pending_decisions # <<>> /\ demo_reset
  \/ demo_phase(4)

SpecDemo == Init /\ [][NextDemo]_vars

\* replies whose fate depends on the policy they are compared with: 30 rps is
\* a large change from 15 and a small one from 45, 20 rps the other way round
GovRaws ==
  { Raw("up", 30000, 90000, 900),
    Raw("up", 20000, 60000, 900) }

\* A request, the control loop and the approvals side by side, with a pending
\* decision that the demo put there: a policy can change between the loop's snapshot of
\* it and the loop's call of _apply_or_queue.
NextGov ==
  \/ Tick
  \/ Admitted < MaxDemoAdmits /\ _handle_request("ent-key", EndpointA)
  \/ LoopWake
  \/ LoopDrain
  \/ LoopSurge
  \/ LoopPreempt
  \/ LoopCall
  \/ \E kind \in {"timeout", "exception", "http_error"} : LoopOracleFail(kind)
  \/ \E raw \in GovRaws : LoopOracleReply(raw)
  \/ LoopResolve
  \/ \E id \in PendingIds(pending_decisions) : approve_decision(id)
  \/ pending_decisions # <<>> /\ approve_all_begin
  \/ approve_all_step
  \/ demo_phase(4)

SpecGov == Init /\ [][NextGov]_vars

\* The governance endpoints, with the history query next to them.
NextQuery ==
  \/ Tick
  \/ demo_phase(4)
  \/ \E id \in PendingIds(pending_decisions) : approve_decision(id)
  \/ pending_decisions # <<>> /\ approve_all_begin
  \/ approve_all_step
  \/ decisions_history_begin
  \/ decisions_history_respond

SpecQuery == Init /\ [][NextQuery]_vars

\* the oracle's reply that asks for 600 rps
ScaleRaws == { Raw("up", 600000, 1800000, 900) }

\* Requests of one tenant growing from one cycle to the next, the control loop
\* with an oracle that asks for a policy above the surge predictor's ceiling,
\* and the approval of what is queued.
NextScale ==
  \/ Tick
  \/ Admitted < MaxAdmits /\ _handle_request("ent-key", EndpointA)
  \/ LoopWake
  \/ LoopDrain
  \/ LoopSurge
  \/ LoopPreempt
  \/ LoopPredict
  \/ LoopCall
  \/ \E raw \in ScaleRaws : LoopOracleReply(raw)
  \/ LoopResolve
  \/ \E id \in PendingIds(pending_decisions) : approve_decision(id)

SpecScale == Init /\ [][NextScale]_vars

\* The control loop next to the traffic simulation endpoint.
NextSim ==
  \/ Tick
  \/ \E tenant \in {"ent", JsonNull} : simulate_traffic(tenant, 20)
  \/ LoopWake
  \/ LoopDrain
  \/ LoopSurge
  \/ LoopPreempt
  \/ LoopPredict
  \/ LoopCall
  \/ \E kind \in {"timeout", "exception", "http_error"} : LoopOracleFail(kind)
  \/ \E raw \in OracleRaws : LoopOracleReply(raw)
  \/ \E text \in OracleTexts : LoopOracleParseError(text)
  \/ LoopRejected
  \/ LoopResolve

SpecSim == Init /\ [][NextSim]_vars

\* the validator applied to one reply, whichever it is
InitVal ==
  /\ InitState
  /\ v_raw \in [raw : ValRaws, cur : ValCurrent]
  /\ v_out = NotRun

NextVal == Validate

SpecVal == InitVal /\ [][NextVal]_vars

\* =================================================================== claims

\* C1: in every reachable state and for every key, 0 <= tokens <= burst of the
\* key's current policy (tokens are in thousandths).
C1_TokensWithinBurst ==
  \A p \in DOMAIN buckets :
    /\ 0 <= buckets[p].tokens
    /\ buckets[p].tokens <= policies[p].burst * Scale

\* the step is a request of a known tenant for the pair p
AdmitStep(p) == allowed'[p] # allowed[p] \/ denied'[p] # denied[p]

\* the tokens of p once the refill of this instant has been added
Refilled(p) ==
  Min(policies[p].burst * Scale, buckets[p].tokens + policies[p].rps * (now - buckets[p].last))

\* C2 as stated: an admit call allows and consumes exactly one token if the
\* bucket holds at least one token before the call, and otherwise denies and
\* leaves the tokens as they were before the call.
C2_Original ==
  [][\A p \in Pairs : AdmitStep(p) =>
        IF buckets[p].tokens >= Scale
        THEN /\ allowed'[p] = allowed[p] + 1 /\ denied'[p] = denied[p]
             /\ buckets'[p].tokens = buckets[p].tokens - Scale
        ELSE /\ denied'[p] = denied[p] + 1 /\ allowed'[p] = allowed[p]
             /\ buckets'[p].tokens = buckets[p].tokens]_vars

\* C2 (amended): an admit call first refills the bucket lazily; if the refilled
\* tokens are at least one, the call allows and leaves the refilled amount minus
\* exactly one token; otherwise it denies and leaves the refilled amount.
C2_AdmitAfterRefill ==
  [][\A p \in Pairs : AdmitStep(p) =>
        IF Refilled(p) >= Scale
        THEN /\ allowed'[p] = allowed[p] + 1 /\ denied'[p] = denied[p]
             /\ stats'[p].ok = stats[p].ok + 1 /\ stats'[p].blocked = stats[p].blocked
             /\ buckets'[p].tokens = Refilled(p) - Scale
        ELSE /\ denied'[p] = denied[p] + 1 /\ allowed'[p] = allowed[p]
             /\ stats'[p].blocked = stats[p].blocked + 1 /\ stats'[p].ok = stats[p].ok
             /\ buckets'[p].tokens = Refilled(p)]_vars

\* a key has been allowed and then denied: the denial left its bucket below one
\* token and was counted as blocked
C2_Witness ==
  \E p \in Pairs : /\ denied[p] >= 1
                    /\ allowed[p] >= 1
                    /\ stats[p].ok >= 1 /\ stats[p].blocked >= 1
                    /\ buckets[p].tokens < Scale

\* the step is the control loop's call of _apply_or_queue
ResolveStep == loop.pc = "resolve" /\ loop' # loop

\* the change ratio new / old lies strictly inside (1 / F, F)
StrictlyInside(new_rps, old_rps) ==
  /\ old_rps * Scale < new_rps * LARGE_CHANGE_FACTOR
  /\ new_rps * Scale < old_rps * LARGE_CHANGE_FACTOR

\* C3: a resolve with action other than "same" applies the change at once iff
\* confidence >= DECISION_MIN_CONF and the ratio new_rps / old_rps is strictly
\* inside (1 / LARGE_CHANGE_FACTOR, LARGE_CHANGE_FACTOR); in every other case it
\* adds exactly one pending entry and leaves the policies unchanged.
C3_ResolveAppliesOrQueues ==
  [][ResolveStep /\ loop.decision.action # "same" =>
       LET p   == Head(loop.active_pairs)
           d   == loop.decision
           old == policies[p].rps
       IN IF d.confidence >= DECISION_MIN_CONF /\ StrictlyInside(d.new_rps, old)
          THEN /\ policies' = [policies EXCEPT ![p] =
                                 [rps |-> Max(Scale, d.new_rps), burst |-> Max(5, d.new_burst)]]
               /\ pending_decisions' = pending_decisions
               /\ Len(decision_history') = Len(decision_history) + 1
               /\ SubSeq(decision_history', 1, Len(decision_history)) = decision_history
               /\ LET h == decision_history'[Len(decision_history')]
                  IN /\ <<h.tenant, h.endpoint>> = p
                     /\ h.old_rps = old /\ h.new_rps = d.new_rps
                     /\ h.applied /\ h.timestamp = now
          ELSE /\ policies' = policies
               /\ decision_history' = decision_history
               /\ Len(pending_decisions') = Len(pending_decisions) + 1
               /\ SubSeq(pending_decisions', 1, Len(pending_decisions)) = pending_decisions
               /\ LET q == pending_decisions'[Len(pending_decisions')]
                  IN /\ <<q.tenant, q.endpoint>> = p
                     /\ q.id \notin PendingIds(pending_decisions)
                     /\ q.new_rps = d.new_rps /\ q.new_burst = d.new_burst
                     /\ q.old_rps = old]_vars

\* the change 15 -> 25 at confidence 0.9 has been applied at once and the policy
\* rps became 25, and a later proposal for the same key with ratio >= 1.8 sits
\* in the pending queue
C3_Witness ==
  /\ \E i \in 1..Len(decision_history) :
        /\ decision_history[i].old_rps = 15000
        /\ decision_history[i].new_rps = 25000
        /\ decision_history[i].confidence = 900
        /\ decision_history[i].approved_at = None
  /\ \E i \in 1..Len(pending_decisions) :
        /\ pending_decisions[i].tenant = "ent"
        /\ pending_decisions[i].new_rps * Scale >=
             LARGE_CHANGE_FACTOR * pending_decisions[i].old_rps
  /\ policies[<<"ent", EndpointA>>].rps = 25000

\* the step answers a request POST /ai/approve/<id>
ApproveAnswer(id) ==
  response' # response /\ response'.op = "approve" /\ response'.id = id

\* C4: approve(id) for an id that is not pending (never created, or consumed by
\* an earlier approve or approve_all) answers not-found and leaves policies,
\* buckets, usage windows, the pending set and the history unchanged; an id that
\* has been approved is no longer pending, so a second approve is such a call.
C4_ApproveUnknownId ==
  /\ [][\A id \in 1..next_id :
          ApproveAnswer(id) /\ id \notin PendingIds(pending_decisions)
          => /\ response'.status = 404
             /\ UNCHANGED <<policies, buckets, stats, pending_decisions,
                            decision_history>>]_vars
  /\ [](state_lock = "free" =>
          \A i \in 1..Len(decision_history) :
             decision_history[i].approved_at # None
             => decision_history[i].id \notin PendingIds(pending_decisions))

\* an approve was answered not-found for an id that an earlier approve or
\* approve_all had moved to the history
C4_Witness ==
  /\ response.op = "approve" /\ response.status = 404
  /\ \E i \in 1..Len(decision_history) :
        /\ decision_history[i].id = response.id
        /\ decision_history[i].approved_at # None

\* C5: a successful approve(id) is one step that sets the policy of the
\* decision's key to (max(1, new_rps), max(5, new_burst)), appends exactly one
\* history record for the decision with the approval time, and removes id from
\* the pending set; no other policy and no other pending entry changes.
C5_ApproveAtomic ==
  [][\A id \in PendingIds(pending_decisions) :
       ApproveAnswer(id)
       => LET d == CHOOSE x \in {pending_decisions[i] : i \in 1..Len(pending_decisions)} :
                     x.id = id
              p == <<d.tenant, d.endpoint>>
              h == decision_history'[Len(decision_history')]
          IN /\ response'.status = 200
             /\ state_lock = "free" /\ state_lock' = "free" /\ aa' = aa
             /\ policies' = [policies EXCEPT ![p] =
                               [rps |-> Max(Scale, d.new_rps), burst |-> Max(5, d.new_burst)]]
             /\ Len(decision_history') = Len(decision_history) + 1
             /\ SubSeq(decision_history', 1, Len(decision_history)) = decision_history
             /\ h.id = id /\ h.approved_at = now /\ h.applied
             /\ h.new_rps = d.new_rps /\ h.new_burst = d.new_burst
             /\ <<h.tenant, h.endpoint>> = p
             /\ pending_decisions' = SelectSeq(pending_decisions, LAMBDA x : x.id # id)]_vars

\* an approve has just succeeded: its record closes the history, the key's
\* policy carries the approved rps, and another decision is still pending
C5_Witness ==
  /\ response.op = "approve" /\ response.status = 200
  /\ Len(decision_history) >= 1
  /\ LET h == decision_history[Len(decision_history)]
     IN /\ h.id = response.id
        /\ policies[<<h.tenant, h.endpoint>>].rps = h.new_rps
  /\ Len(pending_decisions) >= 1
  /\ response.id \notin PendingIds(pending_decisions)

Ran == v_out # NotRun

\* every field the claim speaks of is present in the reply and is a number
AllGiven(raw) ==
  /\ raw.action # NoStr
  /\ raw.new_rps.k = "num" /\ raw.new_burst.k = "num"
  /\ raw.confidence.k # "text"

\* C7 as stated: the result is empty whenever the raw action is not one of up,
\* down, same, or the raw new_rps is outside [1, 1000], or the raw new_burst is
\* outside [5, 5000]; otherwise action, new_rps and new_burst of the result
\* equal the raw values.
C7_Original ==
  Ran /\ AllGiven(v_raw.raw) =>
    LET raw == v_raw.raw
    IN IF \/ raw.action \notin {"up", "down", "same"}
          \/ raw.new_rps.v < Scale \/ raw.new_rps.v > 1000 * Scale
          \/ raw.new_burst.v < 5 * Scale \/ raw.new_burst.v > 5000 * Scale
       THEN v_out = Empty
       ELSE /\ v_out # Empty
            /\ v_out.action = raw.action
            /\ v_out.new_rps = raw.new_rps.v
            /\ v_out.new_burst * Scale = raw.new_burst.v

\* C7 (amended): the validator first normalises the reply (action lower-cased,
\* "same" if absent; new_rps the current rps if absent; new_burst truncated to an
\* integer, int(max(10, 3 * new_rps)) if absent).  The result is empty iff a
\* numeric field cannot be converted, or the normalised action is not one of up,
\* down, same, or new_rps is outside [1, 1000], or the truncated new_burst is
\* outside [5, 5000]; otherwise action, new_rps and new_burst of the result are
\* the normalised values, all within those ranges.
C7_ValidateNormalised ==
  Ran =>
    LET raw == v_raw.raw
        a   == Lower(IF raw.action = NoStr THEN "same" ELSE raw.action)
        r   == IF raw.new_rps.k = "missing" THEN v_raw.cur.rps ELSE raw.new_rps.v
        b   == IF raw.new_burst.k = "missing" THEN IntOf(Max(10 * Scale, 3 * r))
               ELSE IntOf(raw.new_burst.v)
        bad == \/ a \notin {"up", "down", "same"}
               \/ "text" \in {raw.new_rps.k, raw.new_burst.k, raw.confidence.k}
               \/ r < Scale \/ r > 1000 * Scale
               \/ b < 5 \/ b > 5000
    IN IF bad THEN v_out = Empty
       ELSE /\ v_out.action = a /\ v_out.new_rps = r /\ v_out.new_burst = b
            /\ v_out.action \in {"up", "down", "same"}
            /\ Scale <= v_out.new_rps /\ v_out.new_rps <= 1000 * Scale
            /\ 5 <= v_out.new_burst /\ v_out.new_burst <= 5000

\* the reply {"action": "UP", "new_rps": 25, "new_burst": 5000.9} has been
\* accepted as action "up" with new_burst 5000
C7_Witness ==
  /\ Ran
  /\ v_raw.raw.action = "UP"
  /\ v_raw.raw.new_rps = Num(25000)
  /\ v_raw.raw.new_burst = Num(5000900)
  /\ v_out.action = "up" /\ v_out.new_rps = 25000 /\ v_out.new_burst = 5000

\* C8: when the validator rejects the oracle's reply in a cycle (new_rps = 2000
\* is such a reply), the cycle of that key ends without a decision: the loop goes
\* on to the next key or to sleep, and its steps leave the policies, the pending
\* set, the history, the buckets, the usage windows and the lock as they were.
C8_RejectedNoDecision ==
  /\ [][LoopOracleReply(Raw("up", 2000000, 6000000, 900)) => loop'.pc = "rejected"]_vars
  /\ [][loop' # loop /\ (loop.pc = "rejected" \/ loop'.pc = "rejected")
        => /\ UNCHANGED <<policies, buckets, stats, pending_decisions, decision_history,
                          next_id, state_lock, allowed, denied, response>>
           /\ (loop.pc = "rejected" =>
                 /\ loop'.pc \in {"drain", "sleep"}
                 /\ loop'.decision = Empty
                 /\ loop'.cycles = loop.cycles)]_vars
  /\ [][loop' # loop /\ loop.pc # "resolve"
        => UNCHANGED <<policies, pending_decisions, decision_history>>]_vars

\* the validator has just rejected the oracle's reply: no decision is held and
\* nothing has been applied or queued
C8_Witness ==
  /\ loop.pc = "rejected"
  /\ loop.decision = Empty
  /\ n_replies = 1
  /\ pending_decisions = <<>>
  /\ decision_history = <<>>

\* C9: in every reachable state the policy of every key has rps >= 1 and
\* burst >= 5.
C9_PolicyFloors ==
  \A p \in DOMAIN policies :
    /\ policies[p].rps >= Scale
    /\ policies[p].burst >= 5

\* apply_policy has acted for a key through an approval: the key's policy is no
\* longer the plan's
C9_Witness ==
  \E i \in 1..Len(decision_history) :
    LET h == decision_history[i]
    IN /\ h.approved_at # None
       /\ policies[<<h.tenant, h.endpoint>>] # PlanBaseGet(h.tenant)
       /\ policies[<<h.tenant, h.endpoint>>].rps = h.new_rps

\* C10: for every key, the ok counts of all drained windows plus the current ok
\* count equal the number of allowed admits, and likewise the blocked counts and
\* the denied admits.
C10_CountedOnce ==
  \A p \in Pairs :
    /\ drained[p].ok + stats[p].ok = allowed[p]
    /\ drained[p].blocked + stats[p].blocked = denied[p]

\* admits were counted on both sides of a drain-and-reset, a denial among them
C10_Witness ==
  \E p \in Pairs :
    /\ drained[p].ok >= 1
    /\ stats[p].ok >= 1
    /\ stats[p].blocked >= 1

\* C11: while the control loop has an oracle call in flight it does not hold
\* the lock: the lock is free unless approve_all holds it, and then a request of
\* a known tenant can take the lock and complete.
C11_NoLockDuringOracle ==
  loop.pc = "oracle" =>
    /\ state_lock \in {"free", "approve_all"}
    /\ (aa.pc = "idle" => state_lock = "free")
    /\ (state_lock = "free" => ENABLED _handle_request("ent-key", EndpointA))

\* an oracle call is in flight after a failed first attempt, and a request has
\* been admitted and counted in the window opened by this cycle's drain
C11_Witness ==
  /\ loop.pc = "oracle"
  /\ loop.attempt = 1
  /\ state_lock = "free"
  /\ stats[Head(loop.active_pairs)].ok >= 1
  /\ stats[Head(loop.active_pairs)].since = now
  /\ buckets[Head(loop.active_pairs)].last = now

\* the step is the last attempt of the oracle call failing without a reply
TotalFailureStep ==
  /\ loop.pc = "oracle"
  /\ loop.attempt = OLLAMA_MAX_RETRIES - 1
  /\ loop' # loop
  /\ n_replies' = n_replies

\* C12 as stated: when every attempt of the oracle call fails, the cycle of the
\* key ends there; no decision computed locally is handed to _apply_or_queue.
C12_Original ==
  [][TotalFailureStep => loop'.pc # "resolve" /\ loop'.decision = Empty]_vars

\* after a total failure of the oracle the loop is about to call _apply_or_queue
\* with the decision the validator made up from the empty reply
C12_Witness ==
  /\ loop.pc = "resolve"
  /\ n_replies = 0
  /\ loop.attempt = OLLAMA_MAX_RETRIES - 1
  /\ loop.decision.action = "same"
  /\ loop.decision.reason = "ai_decision"
  /\ loop.decision.new_rps = loop.current_policy.rps
  /\ loop.decision.confidence = 700

\* C13: in a cycle, a key for which the surge predictor returns a proposal has
\* that proposal handed to _apply_or_queue and the oracle is not called for it:
\* the oracle call is entered only from the activity test, which is reached
\* only without a proposal, and after _apply_or_queue the loop leaves the key,
\* so there is at most one such call per key and cycle.
C13_PreemptiveSkipsOracle ==
  /\ [][loop.pc = "preempt" /\ loop' # loop =>
          LET p   == Head(loop.active_pairs)
              dec == _preemptive_surge_scaling(policies, p[1], p[2], loop.surge_data)
          IN IF dec.action = "surge_scale"
             THEN loop'.pc = "predict" /\ loop'.surge_decision = dec
             ELSE loop'.pc = "call"]_vars
  /\ [][loop.pc = "predict" /\ loop' # loop =>
          /\ loop'.pc = "resolve"
          /\ loop'.decision.action = "up"
          /\ loop'.decision.new_rps = loop.surge_decision.new_rps
          /\ loop'.decision.new_burst = loop.surge_decision.new_burst
          /\ loop'.decision.confidence = loop.surge_decision.confidence]_vars
  /\ [][loop'.pc = "oracle" /\ loop.pc # "oracle" => loop.pc = "call"]_vars
  /\ [][loop'.pc = "call" /\ loop.pc # "call" => loop.pc = "preempt"]_vars
  /\ [][loop.pc = "resolve" /\ loop' # loop =>
          /\ loop'.pc \in {"drain", "sleep"}
          /\ loop'.pc = "drain" => loop'.active_pairs = Tail(loop.active_pairs)
          /\ loop'.pc = "sleep" => Len(loop.active_pairs) = 1]_vars

\* a preemptive proposal went through _apply_or_queue and was queued, in a
\* behaviour in which the oracle never replied
C13_Witness ==
  /\ n_replies = 0
  /\ \E i \in 1..Len(pending_decisions) :
        /\ pending_decisions[i].reason \in {"growth_scaling", "surge_scaling", "ddos_protection"}
        /\ surge_predictions[<<pending_decisions[i].tenant, pending_decisions[i].endpoint>>].new_rps
             = pending_decisions[i].new_rps
  /\ loop.pc \in {"drain", "sleep"}

\* C15: _apply_or_queue with action "same" changes nothing: policies, buckets,
\* usage windows, pending set and history are as before, whatever new_rps,
\* new_burst and confidence are passed.
C15_SameIsNoOp ==
  [][ResolveStep /\ loop.decision.action = "same" =>
       UNCHANGED <<policies, buckets, stats, pending_decisions, decision_history,
                   next_id>>]_vars

\* the loop is about to resolve a "same" decision whose values, under another
\* action, would have been applied at once (15 -> 25 at confidence 0.9)
C15_Witness ==
  /\ loop.pc = "resolve"
  /\ loop.decision.action = "same"
  /\ loop.decision.new_rps = 25000
  /\ loop.decision.confidence = 900
  /\ policies[Head(loop.active_pairs)].rps = 15000

\* the loop is at a point where an attempt of the oracle call has failed or
\* returned malformed output, the validator has rejected the reply, or a
\* decision recovered from a failure is about to be resolved
AfterLoopError ==
  \/ loop.pc = "oracle" /\ loop.attempt >= 1
  \/ loop.pc = "rejected"
  \/ loop.pc = "resolve" /\ loop.attempt >= 1

\* C14: an error while the control loop processes a key does not stop the loop:
\* from every point after an oracle failure, a malformed reply or a rejection by
\* the validator, and from every other point of a cycle, the loop goes on with
\* the next key and ends the cycle back in its sleep with the next wake-up
\* set; in the meantime the lock is not held by the loop, so requests are served.
C14_LoopGoesOn ==
  /\ (AfterLoopError ~> (loop.pc \in {"drain", "sleep"}))
  /\ (loop.pc \in {"drain", "surge", "preempt", "predict", "call", "oracle",
                   "rejected", "resolve"}
        ~> (loop.pc = "sleep" /\ loop.wake = now + HEURISTIC_EVERY_SEC))
  /\ [](loop.pc \in {"sleep", "drain", "surge", "preempt", "predict", "call", "oracle",
                    "rejected", "resolve"})
  /\ [](AfterLoopError => /\ state_lock \in {"free", "approve_all"}
                          /\ (aa.pc = "idle" => state_lock = "free"))

\* C14, as stated for every error: the thread of the control loop never ends.
C14_LoopNeverStops == loop.pc # "stopped"

\* a key of a tenant that is no string is being processed when the loop ends
C14_Stopped ==
  /\ loop.pc = "stopped"
  /\ Head(loop.active_pairs) = <<JsonNull, EndpointA>>
  /\ loop.stats_snapshot.ok = 20

\* the first cycle saw traffic for a key and every attempt of its oracle call
\* failed; the loop went on, and in its second cycle the reply for the same key
\* has just been rejected by the validator
C14_Witness ==
  /\ loop.pc = "rejected"
  /\ loop.cycles = MaxCycles
  /\ loop.stats_snapshot.ok >= 1
  /\ drained[Head(loop.active_pairs)].ok > loop.stats_snapshot.ok
  /\ n_replies = 1

\* ------------------------------------------------------------------ C16
FreePair == <<"free", EndpointA>>

\* how many of n admit calls in a row at time t are allowed
RECURSIVE AllowRun(_, _, _, _)
AllowRun(S, pair, t, n) ==
  IF n = 0 THEN 0
  ELSE LET r == _allow(S, pair, t)
       IN (IF r.ret THEN 1 ELSE 0) + AllowRun(r.store, pair, t, n - 1)

\* C16: from a full bucket of burst B with no time passing, an admit is allowed
\* exactly while fewer than B were allowed (the first B are allowed, the next
\* ones denied); and once the bucket is exhausted and a second or more has
\* passed since its last refill, floor(rps) admits in a row are allowed.
C16_BurstThenRefill ==
  /\ [][AdmitStep(FreePair) /\ now = 0 =>
          /\ (allowed'[FreePair] = allowed[FreePair] + 1) <=> (allowed[FreePair] < policies[FreePair].burst)
          /\ (denied'[FreePair] = denied[FreePair] + 1) <=> (allowed[FreePair] >= policies[FreePair].burst)]_vars
  /\ [](now = 0 => buckets[FreePair].tokens = (policies[FreePair].burst - allowed[FreePair]) * Scale)
  /\ [](buckets[FreePair].tokens < Scale /\ now >= buckets[FreePair].last + 1 =>
          AllowRun(Store, FreePair, now, policies[FreePair].rps \div Scale)
             = policies[FreePair].rps \div Scale)
  /\ [](allowed[FreePair] + buckets[FreePair].tokens \div Scale
           >= Min(allowed[FreePair] + denied[FreePair], policies[FreePair].burst))

\* ten allowed and the eleventh denied at time 0, three more allowed a second later
C16_Witness ==
  /\ now = 1
  /\ buckets[FreePair].last = 1
  /\ allowed[FreePair] = policies[FreePair].burst + policies[FreePair].rps \div Scale
  /\ policies[FreePair] = [rps |-> 3000, burst |-> 10]
  /\ denied[FreePair] = 1

\* ------------------------------------------------------------------ C17
\* elapsed times, in seconds, a refill is computed for
ElapsedTimes == {0, 1, 2, 3, 60, 3600}

\* the tokens of p after a refill that comes e seconds after its last one
RefillAfter(p, e) == _refill_tokens(Store, p, buckets[p].last + e).buckets[p].tokens

\* C17: whatever the bucket and the policy, the tokens after a refill do not
\* decrease when the elapsed time grows, and they never exceed the burst.
C17_RefillMonotoneCapped ==
  \A p \in DOMAIN buckets : \A e1, e2 \in ElapsedTimes :
     e1 <= e2 => /\ RefillAfter(p, e1) <= RefillAfter(p, e2)
                 /\ RefillAfter(p, e2) <= policies[p].burst * Scale

\* a bucket that a second fills in part and two seconds fill to the burst
C17_Witness ==
  \E p \in DOMAIN buckets :
     /\ buckets[p].tokens < RefillAfter(p, 1)
     /\ RefillAfter(p, 1) < RefillAfter(p, 2)
     /\ RefillAfter(p, 2) = policies[p].burst * Scale
     /\ RefillAfter(p, 3600) = policies[p].burst * Scale
     /\ allowed[p] >= 1

\* --------------------------------------------------------- C18, C19, C20
\* a key of each tier
TierPairs == Pairs \cup {<<"pro", EndpointA>>}

\* the calls that can come next: a history some key has, and a rate
SurgeCalls == [h : {SurgeHistoryOf(q) : q \in Pairs}, r : Rates]

\* what the call c returns for a key p
Analysis(c, p) == _analyze_surge_patterns(c.h, p, c.r, now)

\* C18, as stated: whatever the calls so far and whatever the rate and the
\* tier, the probability returned lies in [0, 100].
C18_ProbabilityInRange ==
  \A p \in TierPairs : \A c \in SurgeCalls :
     /\ Analysis(c, p).surge_probability >= 0
     /\ Analysis(c, p).surge_probability <= 100 * Scale

\* a rate above 50 that has fallen by more than 140 since the sample before
C18_Negative ==
  /\ Len(SurgeHistoryOf(LastPair)) = 2
  /\ surge_history[LastPair][1].rps = 400000
  /\ surge_history[LastPair][2].rps = 60000
  /\ surge_history[LastPair][2].timestamp - surge_history[LastPair][1].timestamp < 300
  /\ Analysis([h |-> <<surge_history[LastPair][1]>>, r |-> 60000], LastPair).surge_probability < 0

\* C19: a call that leaves fewer than 2 samples in the history returns
\* probability 0 and trend 0; the first call for a key and the first call 300 s
\* or more after the last sample are such calls.
C19_ZeroSignal ==
  \A p \in TierPairs : \A c \in SurgeCalls :
     LET sd == Analysis(c, p)
     IN /\ Len(sd.history) < 2 => sd.surge_probability = 0 /\ sd.trend = 0
        /\ c.h = <<>> => Len(sd.history) = 1
        /\ (\A i \in 1..Len(c.h) : now - c.h[i].timestamp >= 300) => Len(sd.history) = 1

\* a key whose only sample, a rate above 50, is 300 s old
C19_Witness ==
  /\ Len(SurgeHistoryOf(LastPair)) = 1
  /\ surge_history[LastPair][1] = [timestamp |-> 0, rps |-> 400000]
  /\ now = 300
  /\ Len(Analysis([h |-> surge_history[LastPair], r |-> 400000], LastPair).history) = 1

\* the three bands as the claim writes them
InStatedBand(band, trend, current_rps) ==
  CASE band = "gradual"  -> 200 <= trend /\ trend <= 2000
    [] band = "moderate" -> 2000 < trend /\ trend <= 10000
    [] band = "severe"   -> trend > 10000 \/ current_rps > 50000

\* C20, as stated: for one tier, two calls that both fall in one of the stated
\* bands return probabilities ordered as their trends.
C20_Original ==
  \A p \in TierPairs : \A c1, c2 \in SurgeCalls :
     \A band \in {"gradual", "moderate", "severe"} :
        LET a == Analysis(c1, p)
            b == Analysis(c2, p)
        IN (/\ Len(a.history) >= 2 /\ Len(b.history) >= 2
            /\ InStatedBand(band, a.trend, c1.r)
            /\ InStatedBand(band, b.trend, c2.r)
            /\ a.trend <= b.trend)
           => a.surge_probability <= b.surge_probability

\* C20: for one tier, two calls that take the same branch of the band chain
\* (gradual, moderate, or the severe branch, which is taken when the trend is
\* above 10, or is below 0.2 with a rate above 50) return probabilities ordered
\* as their trends.
C20_MonotoneInBranch ==
  \A p \in TierPairs : \A c1, c2 \in SurgeCalls :
     LET a == Analysis(c1, p)
         b == Analysis(c2, p)
     IN (/\ Len(a.history) >= 2 /\ Len(b.history) >= 2
         /\ SurgeBand(a.trend, c1.r) = SurgeBand(b.trend, c2.r)
         /\ SurgeBand(a.trend, c1.r) # "none"
         /\ a.trend <= b.trend)
        => a.surge_probability <= b.surge_probability

\* two calls in the moderate branch and two in the severe branch, one of these
\* taking it for its rate above 50 with a falling trend, the other for its trend;
\* in both branches the trends and the probabilities differ
C20_Witness ==
  /\ \E c1, c2 \in SurgeCalls :
        LET a == Analysis(c1, LastPair)
            b == Analysis(c2, LastPair)
        IN /\ Len(a.history) >= 2 /\ Len(b.history) >= 2
           /\ SurgeBand(a.trend, c1.r) = "moderate"
           /\ SurgeBand(b.trend, c2.r) = "moderate"
           /\ a.trend < b.trend
           /\ a.surge_probability < b.surge_probability
  /\ \E c1, c2 \in SurgeCalls :
        LET a == Analysis(c1, LastPair)
            b == Analysis(c2, LastPair)
        IN /\ Len(a.history) >= 2 /\ Len(b.history) >= 2
           /\ SurgeBand(a.trend, c1.r) = "severe" /\ a.trend < 0 /\ c1.r > 50000
           /\ SurgeBand(b.trend, c2.r) = "severe" /\ b.trend > 10000
           /\ a.surge_probability < b.surge_probability

\* ------------------------------------------------------------------ C21
\* a request is answered 401
UnauthorizedStep ==
  response' # response /\ response'.op = "request" /\ response'.status = 401

\* C21: a request of an unknown tenant is answered as unauthorized without
\* touching the limiter: no policy, bucket or usage window is created or
\* changed, no token is spent, no count moves; and the answer needs no lock, it
\* is given also while another thread holds the lock.
C21_UnknownTenantRejected ==
  /\ [][UnauthorizedStep =>
          UNCHANGED <<policies, buckets, stats, pending_decisions, decision_history,
                      next_id, surge_history, surge_predictions, state_lock,
                      allowed, denied, drained>>]_vars
  /\ [](ENABLED _handle_request("bad-key", EndpointA))
  /\ [](<<"unknown", EndpointA>> \notin DOMAIN policies \cup DOMAIN buckets \cup DOMAIN stats)

\* an unknown tenant was refused during an approve_all that has applied one
\* decision and holds the lock
C21_Witness ==
  /\ response = Resp("request", 401, 0, 0)
  /\ state_lock = "approve_all"
  /\ aa.approved_count = 1

\* ------------------------------------------------------------------ C22
\* C22: the decision history only grows, by one record at a time, and what it
\* holds stays as it is; every step that changes a policy (a resolve that
\* applies, an approve, a turn of approve_all) appends exactly one record, the
\* record names the key whose policy changed and its new rate, and no other
\* key's policy changes in that step.
C22_HistoryAppendOnly ==
  /\ [][/\ Len(decision_history') \in {Len(decision_history), Len(decision_history) + 1}
        /\ SubSeq(decision_history', 1, Len(decision_history)) = decision_history]_vars
  /\ [][policies' # policies \/ decision_history' # decision_history =>
          /\ Len(decision_history') = Len(decision_history) + 1
          /\ LET h == decision_history'[Len(decision_history')]
                 p == <<h.tenant, h.endpoint>>
             IN /\ h.applied
                /\ policies'[p].rps = Max(Scale, h.new_rps)
                /\ h.old_rps = policies[p].rps \/ h.approved_at = now
                /\ \A q \in DOMAIN policies \ {p} : policies'[q] = policies[q]]_vars

\* two changes applied by one approve_all are both on record, in the order of
\* their application, and the policy is the one of the later record
C22_Witness ==
  /\ Len(decision_history) = 2
  /\ decision_history[1].id # None
  /\ decision_history[2].id # None
  /\ decision_history[1].id # decision_history[2].id
  /\ decision_history[2].approved_at = now
  /\ response = Resp("approve_all", 200, 0, 2)
  /\ policies[<<decision_history[2].tenant, decision_history[2].endpoint>>].rps
        = decision_history[2].new_rps
  /\ decision_history[1].new_rps # decision_history[2].new_rps

\* ------------------------------------------------------------------ C23
\* the ids of the decisions on record as approved
HistoryIds == {decision_history[i].id : i \in 1..Len(decision_history)} \ {None}

\* C23: outside the locked sections of the governance endpoints, no id is both
\* pending and on record; an id is on record at most once, so no decision is
\* applied twice; an id enters the pending set only as a fresh id, so an id
\* that has left the set does not come back; and an id leaves the pending set
\* only by being applied, with its record, or by being discarded with the whole
\* set.
C23_DecisionStateMachine ==
  /\ [](state_lock = "free" => PendingIds(pending_decisions) \cap HistoryIds = {})
  /\ [](\A i, j \in 1..Len(decision_history) :
          decision_history[i].id # None /\ decision_history[i].id = decision_history[j].id
             => i = j)
  /\ [](\A i, j \in 1..Len(pending_decisions) :
          pending_decisions[i].id = pending_decisions[j].id => i = j)
  /\ [](\A id \in PendingIds(pending_decisions) \cup HistoryIds : id < next_id)
  /\ [][\A id \in PendingIds(pending_decisions') \ PendingIds(pending_decisions) :
          id = next_id /\ next_id' = next_id + 1]_vars
  /\ [][next_id' >= next_id]_vars
  /\ [][\A id \in PendingIds(pending_decisions) \ PendingIds(pending_decisions') :
          \/ id \in HistoryIds' /\ state_lock' = "free"
          \/ pending_decisions' = <<>> /\ decision_history' = decision_history]_vars

\* of three decisions that were pending, one is on record as approved, one was
\* discarded and one is still pending
C23_Witness ==
  /\ state_lock = "free"
  /\ next_id = 4
  /\ Cardinality(HistoryIds) = 1
  /\ Len(pending_decisions) = 1
  /\ \E i \in 1..Len(decision_history) : decision_history[i].id = 1
  /\ pending_decisions[1].id = 3

\* ------------------------------------------------------------------ C24
\* a step of the decision engine: _apply_or_queue called by the loop, approve,
\* or a step of approve_all
DecisionEngineStep ==
  \/ ResolveStep
  \/ response' # response /\ response'.op = "approve"
  \/ aa' # aa

\* the plan's policy for every key
PlanPolicies ==
  [p \in DOMAIN policies |-> [rps |-> Max(Scale, PlanBaseGet(p[1]).rps),
                              burst |-> Max(5, PlanBaseGet(p[1]).burst)]]

\* a step of POST /api/demo/reset
DemoResetStep ==
  /\ state_lock = "free"
  /\ policies' = PlanPolicies
  /\ pending_decisions' = <<>>
  /\ \A p \in DOMAIN stats' : stats'[p] = [ok |-> 0, blocked |-> 0, since |-> now]
  /\ UNCHANGED <<now, buckets, decision_history, next_id, surge_history,
                 surge_predictions, state_lock, loop, aa, response>>

\* C24, as stated: a step that changes a policy is a step of the decision
\* engine.
C24_Original == [][policies' # policies => DecisionEngineStep]_vars

\* C24: a step that changes a policy is a step of the decision engine (resolve
\* applying, approve, approve_all) or the demo reset, which puts every key back
\* on its plan's policy; requests, the loop's drain, the surge analysis, the
\* preemptive proposal and the oracle call with its validation change none.
C24_PolicyWriters ==
  [][policies' # policies => DecisionEngineStep \/ DemoResetStep]_vars

\* an approved change is on record for a key that is back on its plan's policy
C24_Witness ==
  /\ Len(decision_history) >= 1
  /\ LET h == decision_history[Len(decision_history)]
     IN /\ h.id # None
        /\ Max(Scale, h.new_rps) # PlanPolicies[<<h.tenant, h.endpoint>>].rps
  /\ policies = PlanPolicies
  /\ pending_decisions = <<>>
  /\ \E p \in DOMAIN buckets : buckets[p].tokens < policies[p].burst * Scale

\* ------------------------------------------------------------------ C25
\* a count of the usage window of p goes down
WindowFalls(p) ==
  \/ stats'[p].ok < stats[p].ok
  \/ stats'[p].blocked < stats[p].blocked

\* the control loop's drain of the key at the head of its list
DrainStep(p) ==
  /\ loop.pc = "drain"
  /\ loop'.pc # "drain"
  /\ p = Head(loop.active_pairs)

PendingSet(pd) == {pd[i] : i \in 1..Len(pd)}

\* decision d is on record as approved, field for field
OnRecordApproved(d, history) ==
  \E i \in 1..Len(history) :
    /\ history[i].id = d.id
    /\ history[i] = Approved(d, history[i].approved_at)

\* C26, as stated: a pending decision stays pending, with every field as it
\* was, in every step, unless it has been approved (it is then on record).
C26_Original ==
  [][\A d \in PendingSet(pending_decisions) :
       \/ d \in PendingSet(pending_decisions')
       \/ OnRecordApproved(d, decision_history')]_vars

\* C26: a pending decision stays pending, with every field as it was, in
\* every step (request, tick of the clock, loop step, resolve for the same
\* key), unless it has been approved, in which case it is on record with the
\* same fields, or the step is the demo reset, which empties the pending set.
C26_PendingKept ==
  [][\A d \in PendingSet(pending_decisions) :
       \/ d \in PendingSet(pending_decisions')
       \/ OnRecordApproved(d, decision_history')
       \/ DemoResetStep]_vars

\* a decision is still pending after time has passed, a request was handled
\* and a later decision for the same key was queued behind it
C26_Witness ==
  /\ Len(pending_decisions) = 2
  /\ pending_decisions[1].tenant = pending_decisions[2].tenant
  /\ pending_decisions[1].endpoint = pending_decisions[2].endpoint
  /\ pending_decisions[1].created < pending_decisions[2].created
  /\ pending_decisions[2].created < now
  /\ pending_decisions[1].reason = "ddos_protection_89pct"
  /\ pending_decisions[2].reason # "ddos_protection_89pct"
  /\ Admitted > 0
  /\ loop.pc = "sleep"

\* ------------------------------------------------------------------ C27
\* a step taken by another thread while approve_all holds the state lock
OtherThreadStep == state_lock = "approve_all" /\ aa' = aa

\* C27, as stated: every write of the shared state is made by the holder of
\* the state lock, so while approve_all holds it no step of another thread
\* changes policies, buckets, usage windows, pending set, history, surge
\* history or surge predictions.
C27_Original ==
  [][OtherThreadStep =>
       UNCHANGED <<policies, buckets, stats, pending_decisions, decision_history,
                   surge_history, surge_predictions>>]_vars

\* the part of C27 that the code keeps: policies, buckets, usage windows,
\* pending set and history are written by the holder of the lock only
C27_LockedPart ==
  [][OtherThreadStep =>
       UNCHANGED <<policies, buckets, stats, pending_decisions, decision_history>>]_vars

\* C27 for the reads of the history query: the total it answers with is the
\* length of the history it read under the lock (the history is far shorter
\* than the 50 records the answer is cut to).
C27_HistoryReadLocked ==
  hq.pc = "idle" => hq.total = Len(hq.history_snapshot)

\* approve_all holds the state lock and the control loop is about to add a
\* sample to the surge history
C27_Witness ==
  /\ state_lock = "approve_all"
  /\ aa.pc = "apply"
  /\ loop.pc = "surge"
  /\ ENABLED LoopSurge

\* ------------------------------------------------------------------ C28
\* the store after n requests for one key have gone through the locked
\* section of _handle_request at time t, one after the other
RECURSIVE RequestRun(_, _, _, _)
RequestRun(S, pair, t, n) ==
  IF n = 0 THEN S
  ELSE LET r  == _allow(S, pair, t)
           S1 == IF r.ret
                 THEN [r.store EXCEPT !.stats[pair].ok = @ + 1]
                 ELSE [r.store EXCEPT !.stats[pair].blocked = @ + 1]
       IN RequestRun(S1, pair, t, n - 1)

\* C28: the requests of concurrent callers go through the locked section one
\* at a time, each step being one run of it; and N of them on one key at one
\* instant, the bucket holding T tokens at that instant, leave
\* min(N, floor(T)) of them allowed, the tokens lower by that number, okCount
\* higher by that number and okCount + blockedCount higher by N.
C28_ConcurrentAdmits ==
  /\ [][AdmitStep(FreePair) =>
          LET S1 == RequestRun(Store, FreePair, now, 1)
          IN /\ state_lock = "free" /\ state_lock' = "free"
             /\ buckets' = S1.buckets
             /\ stats' = S1.stats
             /\ allowed'[FreePair] + denied'[FreePair]
                  = allowed[FreePair] + denied[FreePair] + 1]_vars
  /\ [](\A N \in 1..MaxConcurrent :
          LET T  == Refilled(FreePair)
              S1 == RequestRun(Store, FreePair, now, N)
              k  == Min(N, T \div Scale)
          IN /\ AllowRun(Store, FreePair, now, N) = k
             /\ S1.buckets[FreePair].tokens = T - k * Scale
             /\ S1.stats[FreePair].ok = stats[FreePair].ok + k
             /\ S1.stats[FreePair].ok + S1.stats[FreePair].blocked
                  = stats[FreePair].ok + stats[FreePair].blocked + N)

\* thirteen requests were answered at one instant from a bucket of ten tokens:
\* ten allowed, three denied, the bucket empty
C28_Witness ==
  /\ now = 0
  /\ allowed[FreePair] = 10
  /\ denied[FreePair] = 3
  /\ stats[FreePair].ok = 10
  /\ stats[FreePair].blocked = 3
  /\ buckets[FreePair].tokens = 0

\* ------------------------------------------------------------------ C29
\* the loop is about to hand a preemptive proposal to _apply_or_queue
PreemptiveResolve == ResolveStep /\ loop.decision.scenario = "surge_scale"

\* C29: when a preemptive proposal is resolved and its rps is at least
\* LARGE_CHANGE_FACTOR times the key's policy rps of that moment, the step adds
\* one pending decision carrying the proposal and leaves policies, buckets and
\* history as they were, whatever the proposal's confidence.
C29_PreemptiveGoverned ==
  [][PreemptiveResolve =>
       LET p == Head(loop.active_pairs)
           d == loop.decision
       IN d.new_rps * Scale >= LARGE_CHANGE_FACTOR * policies[p].rps =>
            /\ d.confidence >= DECISION_MIN_CONF
            /\ Len(pending_decisions') = Len(pending_decisions) + 1
            /\ SubSeq(pending_decisions', 1, Len(pending_decisions)) = pending_decisions
            /\ LET q == pending_decisions'[Len(pending_decisions')]
               IN /\ q.id = next_id
                  /\ <<q.tenant, q.endpoint>> = p
                  /\ q.new_rps = d.new_rps
                  /\ q.new_burst = d.new_burst
                  /\ q.old_rps = policies[p].rps
            /\ UNCHANGED <<policies, buckets, decision_history>>]_vars

\* a preemptive proposal of confidence above 0.88 and of at least
\* LARGE_CHANGE_FACTOR times the policy is pending, the policy and the history
\* being as they were
C29_Witness ==
  /\ decision_history = <<>>
  /\ Len(pending_decisions) = 1
  /\ LET q == pending_decisions[1]
     IN /\ q.reason \in {"growth_scaling", "surge_scaling", "ddos_protection"}
        /\ q.confidence >= 880
        /\ q.new_rps * Scale >= LARGE_CHANGE_FACTOR * q.old_rps
        /\ policies[<<q.tenant, q.endpoint>>].rps = q.old_rps
        /\ policies[<<q.tenant, q.endpoint>>] = PlanPolicies[<<q.tenant, q.endpoint>>]

\* ------------------------------------------------------------------ C30
\* C30, as stated: whenever _preemptive_surge_scaling returns a proposal, its
\* rps is at least the rps of the policy it read and its burst at least that
\* policy's burst.
C30_Original ==
  [][loop.pc = "preempt" /\ loop'.pc = "predict" =>
       LET p == Head(loop.active_pairs)
       IN /\ loop'.surge_decision.new_rps >= policies[p].rps
          /\ loop'.surge_decision.new_burst >= policies[p].burst]_vars

\* a preemptive proposal was applied as an "up" change and took the key's
\* policy from 600 rps down to the ceiling of 500 rps
C30_Witness ==
  /\ Len(decision_history) = 2
  /\ LET h == decision_history[2]
     IN /\ h.reason \in {"growth_scaling", "surge_scaling", "ddos_protection"}
        /\ h.action = "up"
        /\ h.old_rps = 600000
        /\ h.new_rps = 500000
        /\ policies[<<h.tenant, h.endpoint>>].rps = 500000

\* ------------------------------------------------------------------ C31
\* the reply with its confidence replaced by an in-range one
WithConfidence(raw, c) == [raw EXCEPT !.confidence = Num(c)]

\* C31: every decision the validator returns has a confidence in [0.5, 1.0]: a
\* raw confidence below 0.5 (or not a number at all, NaN) gives 0.5, one above
\* 1.0 gives 1.0, one in between is kept, an absent one gives 0.7; and a reply
\* whose confidence converts to a float is rejected exactly when the same reply
\* with confidence 0.7 is rejected.
C31_ConfidenceClamped ==
  Ran =>
    LET raw == v_raw.raw
        c   == raw.confidence
    IN /\ v_out # Empty =>
            /\ 500 <= v_out.confidence /\ v_out.confidence <= 1000
            /\ c.k = "num" /\ c.v < 500 => v_out.confidence = 500
            /\ c.k = "num" /\ c.v > 1000 => v_out.confidence = 1000
            /\ c.k = "num" /\ 500 <= c.v /\ c.v <= 1000 => v_out.confidence = c.v
            /\ c.k = "nan" => v_out.confidence = 500
            /\ c.k = "missing" => v_out.confidence = 700
       /\ c.k # "text" =>
            ((v_out = Empty) <=>
               (_validate_ai_decision(WithConfidence(raw, 700), v_raw.cur.rps,
                                      v_raw.cur.burst) = Empty))

\* a reply with a negative confidence was accepted at 0.5
C31_Witness ==
  /\ Ran
  /\ v_raw.raw.confidence = Num(0 - 200)
  /\ v_raw.raw.action = "down"
  /\ v_out # Empty
  /\ v_out.confidence = 500
  /\ v_out.action = "down"

\* ------------------------------------------------------------------ C32
\* C32: an oracle call makes at most OLLAMA_MAX_RETRIES attempts and ends; no
\* step of the call changes policies, buckets, usage windows, pending set or
\* history; when the last attempt fails the call hands the empty result to the
\* validator, and what the loop then does with it changes none of them either.
C32_OracleCallBounded ==
  /\ [](loop.pc = "oracle" => loop.attempt < OLLAMA_MAX_RETRIES)
  /\ [][loop.pc = "oracle" /\ loop' # loop =>
          /\ UNCHANGED <<policies, buckets, stats, pending_decisions, decision_history,
                         next_id, state_lock>>
          /\ loop'.pc = "oracle" => loop'.attempt = loop.attempt + 1]_vars
  /\ [][TotalFailureStep => loop' = LoopValidated(EmptyRaw)]_vars
  /\ [][loop' # loop /\ loop.pc \in {"resolve", "rejected"}
          /\ loop.decision \in {Empty, _validate_ai_decision(EmptyRaw, loop.current_policy.rps,
                                                             loop.current_policy.burst)}
        => UNCHANGED <<policies, buckets, stats, pending_decisions, decision_history,
                       next_id, state_lock>>]_vars
  /\ (loop.pc = "oracle" ~> loop.pc # "oracle")

\* a cycle has ended in which the oracle was called for a key with traffic and
\* never replied: nothing was queued, recorded or changed
C32_Witness ==
  /\ loop.pc = "sleep"
  /\ loop.cycles >= 1
  /\ n_replies = 0
  /\ \E p \in Pairs : drained[p].ok >= 1
  /\ pending_decisions = <<>>
  /\ decision_history = <<>>
  /\ policies = PlanPolicies

\* ------------------------------------------------------------------ C33
\* no action direction can be derived from the text
NoDirection(text) == ~HasUpWord(text) /\ ~HasDownWord(text)

\* the part of C33 about the retry: a reply that does not parse on an attempt
\* before the last only starts the next attempt; the intent is extracted from
\* the text of the last attempt alone.
C33_FinalRetryOnly ==
  [][\A text \in OracleTexts :
       LoopOracleParseError(text) =>
         IF loop.attempt < OLLAMA_MAX_RETRIES - 1
         THEN loop' = [loop EXCEPT !.attempt = @ + 1]
         ELSE LET scenario == _classify_traffic_scenario(
                                Head(loop.active_pairs)[1], loop.ok_rps,
                                loop.blocked_ratio, loop.utilization)
              IN loop' = LoopValidated(_extract_intent_from_response(
                                         text, loop.prompt_policy.rps, scenario))]_vars

\* C33, as stated: a reply that does not parse on an attempt before the last
\* only starts the next attempt; on the last attempt, a text from which no
\* direction can be derived is a total failure: no decision is produced and
\* nothing is handed to _apply_or_queue for the key.
C33_Original ==
  [][\A text \in OracleTexts :
       LoopOracleParseError(text) =>
         IF loop.attempt < OLLAMA_MAX_RETRIES - 1
         THEN loop' = [loop EXCEPT !.attempt = @ + 1]
         ELSE NoDirection(text) =>
                /\ loop'.pc # "resolve"
                /\ loop'.decision = Empty]_vars

\* the last attempt's text gave no direction, and the loop is about to call
\* _apply_or_queue with the "same" decision made from it
C33_Witness ==
  /\ loop.pc = "resolve"
  /\ loop.attempt = OLLAMA_MAX_RETRIES - 1
  /\ n_replies = 1
  /\ loop.decision.action = "same"
  /\ loop.decision.reason \in {IntentReason(sc) : sc \in {"ddos", "surge", "normal", "light", "stable"}}
  /\ loop.decision.new_rps = loop.prompt_policy.rps
  /\ loop.decision.confidence = 700

\* ------------------------------------------------------------------ C34
\* C34: one call of _apply_or_queue by the loop does exactly one of three
\* things.  It applies: rps and burst of the key's policy are both set (to
\* max(1, new_rps) and max(5, new_burst)), one record is appended to the history
\* and the pending set stays as it is.  Or it queues: policies and history
\* stay as they are and one entry with an id never used before is added behind
\* the pending entries, which all stay as they are, those of the same key
\* included.  Or, the action being "same", it changes nothing.  Buckets and
\* usage windows are untouched in all three.
C34_ResolveAllOrNothing ==
  [][ResolveStep =>
       LET p == Head(loop.active_pairs)
           d == loop.decision
       IN /\ UNCHANGED <<buckets, stats>>
          /\ \/ /\ d.action # "same"
                /\ policies' = [policies EXCEPT ![p] =
                                  [rps |-> Max(Scale, d.new_rps),
                                   burst |-> Max(5, d.new_burst)]]
                /\ Len(decision_history') = Len(decision_history) + 1
                /\ SubSeq(decision_history', 1, Len(decision_history)) = decision_history
                /\ LET h == decision_history'[Len(decision_history')]
                   IN /\ <<h.tenant, h.endpoint>> = p
                      /\ h.new_rps = d.new_rps /\ h.action = d.action
                /\ UNCHANGED <<pending_decisions, next_id>>
             \/ /\ d.action # "same"
                /\ UNCHANGED <<policies, decision_history>>
                /\ Len(pending_decisions') = Len(pending_decisions) + 1
                /\ SubSeq(pending_decisions', 1, Len(pending_decisions)) = pending_decisions
                /\ LET q == pending_decisions'[Len(pending_decisions')]
                   IN /\ <<q.tenant, q.endpoint>> = p
                      /\ q.id \notin PendingIds(pending_decisions) \cup HistoryIds
                      /\ q.id = next_id /\ next_id' = next_id + 1
                      /\ q.new_rps = d.new_rps /\ q.new_burst = d.new_burst
                      /\ q.action = d.action /\ q.confidence = d.confidence
             \/ /\ d.action = "same"
                /\ UNCHANGED <<policies, pending_decisions, decision_history, next_id>>]_vars

\* two decisions queued by the loop for one key are pending side by side, with
\* different ids and different proposals
C34_Witness ==
  /\ Len(pending_decisions) = 2
  /\ pending_decisions[1].tenant = pending_decisions[2].tenant
  /\ pending_decisions[1].endpoint = pending_decisions[2].endpoint
  /\ pending_decisions[1].id # pending_decisions[2].id
  /\ pending_decisions[1].new_rps # pending_decisions[2].new_rps
  /\ pending_decisions[1].reason # "ddos_protection_89pct"
  /\ pending_decisions[2].reason # "ddos_protection_89pct"
  /\ decision_history = <<>>
  /\ loop.pc \in {"drain", "sleep"}

\* ------------------------------------------------------------------ C35
\* keys that _ensure_policy_and_bucket may be called with: the keys of the
\* model, a key of a tier that the model leaves out and a key of no tier
C35_Candidates == Pairs \cup {<<"pro", EndpointA>>, <<JsonNull, EndpointA>>}

\* what _ensure_policy_and_bucket(pair) does in the present state: it adds the
\* key to all three dicts and to nothing else; a key that is there is left as
\* it is; a new key gets PLAN_BASE of its tier (the fallback 10 / 20 when the
\* tenant has no tier), tokens = burst and both counts 0
C35_EnsureCreates(pair) ==
  LET S1 == _ensure_policy_and_bucket(Store, pair, now)
  IN /\ DOMAIN S1.policies = DOMAIN policies \cup {pair}
     /\ DOMAIN S1.buckets = DOMAIN buckets \cup {pair}
     /\ DOMAIN S1.stats = DOMAIN stats \cup {pair}
     /\ \A k \in DOMAIN policies :
          /\ S1.policies[k] = policies[k]
          /\ S1.buckets[k] = buckets[k]
          /\ S1.stats[k] = stats[k]
     /\ pair \notin DOMAIN policies =>
          /\ pair[1] \in PlanTenants => S1.policies[pair] = PLAN_BASE[pair[1]]
          /\ pair[1] \notin PlanTenants =>
               S1.policies[pair] = [rps |-> 10 * Scale, burst |-> 20]
          /\ S1.buckets[pair].tokens = S1.policies[pair].burst * Scale
          /\ S1.stats[pair].ok = 0
          /\ S1.stats[pair].blocked = 0

\* C35: policies, buckets and stats have the same keys in every reachable
\* state; no step removes a key; a key is created with its tier's default
\* policy, a full bucket and a usage window with both counts 0
C35_KeysCreatedTogether ==
  /\ [](/\ DOMAIN policies = DOMAIN buckets
        /\ DOMAIN buckets = DOMAIN stats
        /\ \A pair \in C35_Candidates : C35_EnsureCreates(pair))
  /\ [][/\ DOMAIN policies \subseteq DOMAIN policies'
        /\ \A k \in DOMAIN policies' \ DOMAIN policies :
             /\ policies'[k] = [rps |-> PlanBaseGet(k[1]).rps,
                                burst |-> PlanBaseGet(k[1]).burst]
             /\ buckets'[k].tokens = policies'[k].burst * Scale]_vars

\* a key that start-up did not create is there with its policy, bucket and
\* usage window, and the loop has since read and reset its window
C35_Witness ==
  /\ DOMAIN policies # Pairs
  /\ \E k \in DOMAIN policies \ Pairs :
       /\ k \in DOMAIN buckets /\ k \in DOMAIN stats
       /\ stats[k].ok = 0
  /\ loop.cycles >= 1

\* ------------------------------------------------------------------ C36
\* the step appends a record of a change applied without approval
AutoApplyStep ==
  /\ Len(decision_history') = Len(decision_history) + 1
  /\ decision_history'[Len(decision_history')].approved_at = None

\* C36: whatever approve and approve_all did since the loop took its snapshot
\* of the policy, a change applied without approval is applied by the loop's
\* call of _apply_or_queue, its ratio new_rps / prev is strictly inside
\* (1 / LARGE_CHANGE_FACTOR, LARGE_CHANGE_FACTOR) for prev the rps the policy
\* has in the state the step starts from, the record's old_rps is prev, and the
\* policy's rps after the step is the applied one.
C36_AutoApplyAgainstCurrent ==
  [][AutoApplyStep =>
       LET h == decision_history'[Len(decision_history')]
           p == <<h.tenant, h.endpoint>>
       IN /\ ResolveStep
          /\ p = Head(loop.active_pairs)
          /\ StrictlyInside(h.new_rps, policies[p].rps)
          /\ h.old_rps = policies[p].rps
          /\ policies'[p].rps = Max(Scale, h.new_rps)
          /\ h.confidence >= DECISION_MIN_CONF]_vars

\* the loop read the policy at 15 rps, the pending 45 rps was approved after
\* that, and the reply of 30 rps, a large change from 15, was applied against
\* 45 and recorded with old_rps = 45
C36_Witness ==
  /\ Len(decision_history) >= 2
  /\ LET n  == Len(decision_history)
         h  == decision_history[n]
         r1 == decision_history[n - 1]
         p  == <<h.tenant, h.endpoint>>
     IN /\ h.approved_at = None
        /\ r1.approved_at # None
        /\ <<r1.tenant, r1.endpoint>> = p
        /\ r1.approved_at > stats[p].since
        /\ h.timestamp >= r1.approved_at
        /\ h.old_rps = 45000
        /\ h.new_rps = 30000
        /\ ~StrictlyInside(h.new_rps, PLAN_BASE[h.tenant].rps)
        /\ policies[p].rps = 30000

\* ------------------------------------------------------------------ C37
\* the step is the last one of approve_all: the pending set is cleared and the
\* lock is released
ApproveAllDone == aa.pc = "apply" /\ aa' # aa /\ aa'.pc = "idle"

\* C37: when approve_all is through, the history ends with one record per
\* decision that was pending, in the order in which the decisions were created
\* (the order of the pending set), each carrying its decision's id and
\* proposal; the policy of every key that had pending decisions is the
\* proposal of the key's most recently created one, rps raised to at least 1
\* and burst to at least 5; nothing is pending afterwards.
C37_ApproveAllInCreationOrder ==
  [][ApproveAllDone =>
       LET P    == pending_decisions
           n    == Len(P)
           base == Len(decision_history') - n
           KeyOf(d) == <<d.tenant, d.endpoint>>
       IN /\ n >= 1 /\ base >= 0
          /\ \A i \in 1..(n - 1) : P[i].id < P[i + 1].id /\ P[i].created <= P[i + 1].created
          /\ \A i \in 1..n :
               LET h == decision_history'[base + i]
               IN /\ h.id = P[i].id
                  /\ KeyOf(h) = KeyOf(P[i])
                  /\ h.new_rps = P[i].new_rps /\ h.new_burst = P[i].new_burst
                  /\ h.applied /\ h.approved_at # None
          /\ \A i \in 1..n :
               (\A j \in (i + 1)..n : KeyOf(P[j]) # KeyOf(P[i])) =>
                 policies'[KeyOf(P[i])] = [rps |-> Max(Scale, P[i].new_rps),
                                          burst |-> Max(5, P[i].new_burst)]
          /\ \A k \in DOMAIN policies :
               (\A i \in 1..n : KeyOf(P[i]) # k) => policies'[k] = policies[k]
          /\ pending_decisions' = <<>>
          /\ response'.count = n]_vars

\* approve_all went through two decisions for one key, 45 rps created first
\* and 30 rps created second: the history ends with the two in that order and
\* the key's policy is 30 rps
C37_Witness ==
  /\ aa.pc = "idle"
  /\ state_lock = "free"
  /\ pending_decisions = <<>>
  /\ response.op = "approve_all" /\ response.count = 2
  /\ Len(decision_history) >= 2
  /\ LET n  == Len(decision_history)
         h1 == decision_history[n - 1]
         h2 == decision_history[n]
     IN /\ h1.approved_at # None /\ h2.approved_at # None
        /\ h1.tenant = h2.tenant /\ h1.endpoint = h2.endpoint
        /\ h1.id < h2.id
        /\ h1.new_rps = 45000 /\ h2.new_rps = 30000
        /\ policies[<<h2.tenant, h2.endpoint>>].rps = 30000

\* ------------------------------------------------------------------ C38
\* positions of the control loop whose next step starts with `with state_lock:`
\* (the snapshot, _preemptive_surge_scaling, _call_ollama_ai's read of the
\* policy, _apply_or_queue)
LockRequestingPcs == {"drain", "preempt", "call", "resolve"}

\* C38: the lock is held exactly while approve_all is inside its critical
\* section, the only one that takes more than one step; the holder's steps
\* request no lock, and while it holds the lock no step of the loop that needs
\* the lock goes through; every other critical section (admit, approve with
\* its not-found return, the loop's sections) gives the lock back in the step
\* that took it; a held lock is always released, a step of the loop that
\* requests the lock always gets it, and whenever the lock is free an admit, an
\* approve and an approve_all can take it.
C38_LockDiscipline ==
  /\ [](/\ state_lock \in {"free", "approve_all"}
        /\ (state_lock = "approve_all" <=> aa.pc = "apply")
        /\ (state_lock = "free" =>
              /\ ENABLED approve_decision(1)
              /\ ENABLED approve_all_begin
              /\ (Admitted < MaxLiveAdmits =>
                    ENABLED _handle_request("ent-key", EndpointA))))
  /\ [][/\ (state_lock = "free" /\ state_lock' # "free") =>
             (aa.pc = "idle" /\ aa'.pc = "apply" /\ loop' = loop)
        /\ state_lock = "approve_all" =>
             /\ aa' # aa => (/\ loop' = loop
                             /\ (state_lock' = "free" <=> aa'.pc = "idle"))
             /\ loop' # loop => loop.pc \notin LockRequestingPcs \cup {"sleep"}
             /\ (response' # response /\ aa' = aa) => response'.status = 401
        /\ (response' # response /\ response'.status = 404) =>
             (state_lock = "free" /\ state_lock' = "free"
              /\ UNCHANGED <<policies, buckets, stats, pending_decisions,
                             decision_history>>)]_vars
  /\ (state_lock = "approve_all" ~> state_lock = "free")
  /\ \A pc \in LockRequestingPcs : (loop.pc = pc ~> loop.pc # pc)

\* approve_all took the lock and gave it back, and later the loop got the lock
\* for its snapshot of the same key: the usage window of the approved
\* decision's key was reset after the approval
C38_Witness ==
  /\ state_lock = "free" /\ aa.pc = "idle"
  /\ response.op = "approve_all" /\ response.count >= 1
  /\ decision_history # <<>>
  /\ LET h == decision_history[Len(decision_history)]
     IN /\ h.approved_at # None
        /\ stats[<<h.tenant, h.endpoint>>].since > h.approved_at
  /\ loop.pc = "sleep"

====
